---- MODULE Spec2Model ----
(***************************************************************************)
(* A model of the Work Manager extension: the entity repositories over the  *)
(* shared SQL tables, the reminder resolver, and the reminder scheduling    *)
(* callbacks of the extension entry point.                                  *)
(***************************************************************************)
EXTENDS Integers, Sequences, FiniteSets, TLC

VARIABLES
    projects,    \* ext_work_manager_projects: id -> row, for the rows present
    todos,       \* ext_work_manager_todos: id -> row
    comments,    \* ext_work_manager_comments: id -> row
    subitems,    \* ext_work_manager_subitems: id -> row
    groupState,  \* ext_work_manager_group_state: group_id -> row
    settings,    \* ext_work_manager_settings: key -> row
    creator,     \* history: the user whose facade inserted each row
    clock,       \* the value new Date() returned last
    call,        \* the handler in flight, at its statement
    last,        \* the last handler that returned: its arguments and result
    jobs,        \* the host scheduler: job id -> pending job
    callbacks,   \* the scheduleTodo invocations started and not yet finished
    rTodo,       \* reminder resolver: the todo given
    rSettings,   \* reminder resolver: the settings given
    rResult,     \* reminder resolver: the value returned
    tz,          \* the host's local UTC offset in minutes
    initializedDatabases, \* WorkDb.initializedDatabases holds the connection
    setups,      \* history: how many times initialize() began the schema setup
    registrations, \* what activate registered with the host: name -> disposed or not
    activation,  \* the extension: not activated, active, or deactivated
    chat         \* the instructions appended to chat, in order

dbVars == <<projects, todos, comments, subitems, groupState, settings, creator>>
ctlVars == <<clock, call, last>>
schedVars == <<jobs, callbacks>>
remVars == <<rTodo, rSettings, rResult, tz>>
initVars == <<initializedDatabases, setups>>
hostVars == <<registrations, activation, chat>>
vars == <<projects, todos, comments, subitems, groupState, settings, creator,
          clock, call, last, jobs, callbacks, rTodo, rSettings, rResult, tz,
          initializedDatabases, setups, registrations, activation, chat>>

----------------------------------------------------------------------------
(* JavaScript values: undefined, null, or a value.                          *)

Undefined == [kind |-> "undefined"]
Null == [kind |-> "null"]
Val(x) == [kind |-> "val", v |-> x]

\* a ?? b
Coalesce(a, b) == IF a.kind = "val" THEN a ELSE b

\* !!s for an optional string: undefined, null and '' are falsy
Truthy(o) == o.kind = "val" /\ o.v # ""

\* String.prototype.slice(a, b) for 0 <= a, 0 <= b
slice(s, a, b) ==
    LET e == IF b > Len(s) THEN Len(s) ELSE b
    IN IF a >= e THEN "" ELSE SubSeq(s, a + 1, e)

charAt(s, i) == slice(s, i, i + 1)

RECURSIVE trimStart(_)
trimStart(s) ==
    IF Len(s) > 0 /\ charAt(s, 0) = " " THEN trimStart(slice(s, 1, Len(s))) ELSE s

RECURSIVE trimEnd(_)
trimEnd(s) ==
    IF Len(s) > 0 /\ charAt(s, Len(s) - 1) = " "
    THEN trimEnd(slice(s, 0, Len(s) - 1)) ELSE s

\* String.prototype.trim
trim(s) == trimEnd(trimStart(s))

DigitChars == "0123456789"

IsDigit(c) == \E d \in 0..9 : c = charAt(DigitChars, d)

DigitVal(c) == CHOOSE d \in 0..9 : c = charAt(DigitChars, d)

\* /^\d+$/ on a string of the given length
AllDigits(s) == Len(s) > 0 /\ \A i \in 0..(Len(s) - 1) : IsDigit(charAt(s, i))

RECURSIVE ToNum(_)
ToNum(s) ==
    IF Len(s) = 0 THEN 0
    ELSE 10 * ToNum(slice(s, 0, Len(s) - 1)) + DigitVal(charAt(s, Len(s) - 1))

RECURSIVE Pad(_, _)
\* String(n).padStart(w, '0') for 0 <= n < 10^w
Pad(n, w) == IF w = 0 THEN "" ELSE Pad(n \div 10, w - 1) \o charAt(DigitChars, n % 10)

----------------------------------------------------------------------------
(* db/utils.ts                                                              *)

normalizeOptionalString(value) ==
    IF value.kind = "undefined" THEN Undefined
    ELSE IF value.kind = "null" THEN Null
    ELSE IF trim(value.v) # "" THEN Val(trim(value.v)) ELSE Null

deriveDateTime(dueAt, date, time, allDay) ==
    LET nd == normalizeOptionalString(date)
        nt == normalizeOptionalString(time)
        normalizedDate == IF nd.kind = "val" THEN nd ELSE Undefined
        normalizedTime == IF nt.kind = "val" THEN nt ELSE Undefined
        isAllDay == allDay.kind = "val" /\ allDay.v
    IN IF Truthy(normalizedDate) /\ Truthy(normalizedTime)
       THEN [date |-> normalizedDate.v, time |-> normalizedTime.v]
       ELSE IF Truthy(dueAt) /\ Len(dueAt.v) >= 16
       THEN [date |-> Coalesce(normalizedDate, Val(slice(dueAt.v, 0, 10))).v,
             time |-> Coalesce(normalizedTime,
                               Val(IF isAllDay THEN "00:00"
                                   ELSE slice(dueAt.v, 11, 16))).v]
       ELSE [date |-> Coalesce(normalizedDate, Val("")).v,
             time |-> Coalesce(normalizedTime,
                               Val(IF isAllDay THEN "00:00" ELSE "")).v]

----------------------------------------------------------------------------
(* Date: an instant is minutes since the epoch plus milliseconds within the *)
(* minute, so that every number stays within 32 bits.                       *)

DaysFromCivil(y, m, d) ==
    LET yy == IF m <= 2 THEN y - 1 ELSE y
        era == yy \div 400
        yoe == yy - era * 400
        mp == (m + 9) % 12
        doy == (153 * mp + 2) \div 5 + d - 1
        doe == yoe * 365 + yoe \div 4 - yoe \div 100 + doy
    IN era * 146097 + doe - 719468

CivilFromDays(days) ==
    LET z == days + 719468
        era == z \div 146097
        doe == z - era * 146097
        yoe == (doe - doe \div 1460 + doe \div 36524 - doe \div 146096) \div 365
        doy == doe - (365 * yoe + yoe \div 4 - yoe \div 100)
        mp == (5 * doy + 2) \div 153
        d == doy - (153 * mp + 2) \div 5 + 1
        m == IF mp < 10 THEN mp + 3 ELSE mp - 9
        y == yoe + era * 400 + (IF m <= 2 THEN 1 ELSE 0)
    IN [y |-> y, m |-> m, d |-> d]

DaysInMonth(y, m) ==
    IF m = 2
    THEN (IF y % 4 = 0 /\ (y % 100 # 0 \/ y % 400 = 0) THEN 29 ELSE 28)
    ELSE IF m \in {4, 6, 9, 11} THEN 30 ELSE 31

\* The date part YYYY-MM-DD of an ISO string, as days since the epoch
ParseDatePart(s) ==
    IF /\ Len(s) = 10
       /\ AllDigits(slice(s, 0, 4)) /\ charAt(s, 4) = "-"
       /\ AllDigits(slice(s, 5, 7)) /\ charAt(s, 7) = "-"
       /\ AllDigits(slice(s, 8, 10))
    THEN LET y == ToNum(slice(s, 0, 4))
             m == ToNum(slice(s, 5, 7))
             d == ToNum(slice(s, 8, 10))
         IN IF m \in 1..12 /\ d >= 1 /\ d <= DaysInMonth(y, m)
            THEN Val(DaysFromCivil(y, m, d)) ELSE Null
    ELSE Null

\* The time part HH:mm, HH:mm:ss or HH:mm:ss.sss, as [min, ms]
ParseTimePart(s) ==
    LET hm == /\ Len(s) >= 5
              /\ AllDigits(slice(s, 0, 2)) /\ charAt(s, 2) = ":"
              /\ AllDigits(slice(s, 3, 5))
        h == ToNum(slice(s, 0, 2))
        mi == ToNum(slice(s, 3, 5))
        hasSec == Len(s) >= 8 /\ charAt(s, 5) = ":" /\ AllDigits(slice(s, 6, 8))
        sec == ToNum(slice(s, 6, 8))
        hasMs == Len(s) = 12 /\ charAt(s, 8) = "." /\ AllDigits(slice(s, 9, 12))
        ms == ToNum(slice(s, 9, 12))
    IN IF hm /\ h <= 23 /\ mi <= 59 /\ Len(s) = 5
       THEN Val([min |-> h * 60 + mi, ms |-> 0])
       ELSE IF hm /\ h <= 23 /\ mi <= 59 /\ hasSec /\ sec <= 59 /\ Len(s) = 8
       THEN Val([min |-> h * 60 + mi, ms |-> sec * 1000])
       ELSE IF hm /\ h <= 23 /\ mi <= 59 /\ hasSec /\ sec <= 59 /\ hasMs
       THEN Val([min |-> h * 60 + mi, ms |-> sec * 1000 + ms])
       ELSE Null

\* /(Z|[+-]\d{2}:\d{2})$/
MatchOffset(iso) ==
    LET n == Len(iso)
        tail == slice(iso, n - 6, n)
    IN IF n >= 1 /\ charAt(iso, n - 1) = "Z" THEN Val("Z")
       ELSE IF /\ n >= 6
               /\ charAt(tail, 0) \in {"+", "-"}
               /\ AllDigits(slice(tail, 1, 3)) /\ charAt(tail, 3) = ":"
               /\ AllDigits(slice(tail, 4, 6))
       THEN Val(tail)
       ELSE Null

\* The offset in minutes east of UTC of "Z" or "+HH:mm" / "-HH:mm"
OffsetMinutes(off) ==
    IF off = "Z" THEN 0
    ELSE LET m == ToNum(slice(off, 1, 3)) * 60 + ToNum(slice(off, 4, 6))
         IN IF charAt(off, 0) = "-" THEN 0 - m ELSE m

\* new Date(s).getTime() for the ISO 8601 forms: a date alone is UTC, a date
\* and time without an offset is local time; Null is NaN (Invalid Date)
DateParse(s, localOffset) ==
    LET off == MatchOffset(s)
        body == IF off.kind = "val" THEN slice(s, 0, Len(s) - Len(off.v)) ELSE s
        days == ParseDatePart(slice(body, 0, 10))
        tm == ParseTimePart(slice(body, 11, Len(body)))
    IN IF Len(s) = 10
       THEN (IF ParseDatePart(s).kind = "val"
             THEN Val([min |-> ParseDatePart(s).v * 1440, ms |-> 0]) ELSE Null)
       ELSE IF /\ Len(body) >= 16 /\ charAt(body, 10) = "T"
               /\ days.kind = "val" /\ tm.kind = "val"
               /\ (off.kind = "val" =>
                      /\ ToNum(slice(off.v, 1, 3)) <= 23
                      /\ ToNum(slice(off.v, 4, 6)) <= 59)
       THEN Val([min |-> days.v * 1440 + tm.v.min
                         - (IF off.kind = "val" THEN OffsetMinutes(off.v)
                            ELSE localOffset),
                 ms |-> tm.v.ms])
       ELSE Null

\* Date.prototype.toISOString for years 0..9999
toISOString(t) ==
    LET days == t.min \div 1440
        rem == t.min % 1440
        c == CivilFromDays(days)
    IN Pad(c.y, 4) \o "-" \o Pad(c.m, 2) \o "-" \o Pad(c.d, 2) \o "T"
       \o Pad(rem \div 60, 2) \o ":" \o Pad(rem % 60, 2) \o ":"
       \o Pad(t.ms \div 1000, 2) \o "." \o Pad(t.ms % 1000, 3) \o "Z"

----------------------------------------------------------------------------
(* reminders.ts                                                             *)

extractOffset(iso) == Coalesce(MatchOffset(iso), Val("Z")).v

\* The HH:MM test without its end anchor
normalizeAllDayTime_Unanchored(time) ==
    LET trimmed == trim(time)
    IN IF trimmed = "" THEN Null
       ELSE IF /\ Len(trimmed) >= 5 /\ AllDigits(slice(trimmed, 0, 2))
               /\ charAt(trimmed, 2) = ":" /\ AllDigits(slice(trimmed, 3, 5))
       THEN Val(slice(trimmed, 0, 5) \o ":00")
       ELSE Null

normalizeAllDayTime(time) ==
    LET trimmed == trim(time)
        hhmm(s) == /\ AllDigits(slice(s, 0, 2)) /\ charAt(s, 2) = ":"
                   /\ AllDigits(slice(s, 3, 5))
    IN IF trimmed = "" THEN Null
       ELSE IF Len(trimmed) = 5 /\ hhmm(trimmed) THEN Val(trimmed \o ":00")
       ELSE IF /\ Len(trimmed) = 8 /\ hhmm(trimmed)
               /\ charAt(trimmed, 5) = ":" /\ AllDigits(slice(trimmed, 6, 8))
       THEN Val(trimmed)
       ELSE Null

isTodoActive(todo) == todo.status # "completed" /\ todo.status # "cancelled"

\* todo.reminderMinutes if it is neither undefined nor null, else the default
effectiveReminderMinutes(todo, s) ==
    IF todo.reminderMinutes.kind # "undefined" /\ todo.reminderMinutes.kind # "null"
    THEN todo.reminderMinutes
    ELSE s.defaultReminderMinutes

\* new Date(dueDate.getTime() - reminderMinutes * 60 * 1000)
minusMinutes(due, reminderMinutes) ==
    [min |-> due.min - reminderMinutes, ms |-> due.ms]

resolveAllDay(todo, s) ==
    IF ~Truthy(s.allDayReminderTime) THEN Null
    ELSE LET datePart == slice(todo.dueAt, 0, 10)
             offset == extractOffset(todo.dueAt)
             timePart == normalizeAllDayTime(s.allDayReminderTime.v)
         IN IF ~Truthy(timePart) THEN Null
            ELSE Val(datePart \o "T" \o timePart.v \o offset)

resolveTimed(todo, s, localOffset) ==
    LET reminderMinutes == effectiveReminderMinutes(todo, s)
        dueDate == DateParse(todo.dueAt, localOffset)
    IN IF reminderMinutes.kind # "val" THEN Null
       ELSE IF dueDate.kind # "val" THEN Null
       ELSE Val(toISOString(minusMinutes(dueDate.v, reminderMinutes.v)))

resolveReminderAt(todo, s, localOffset) ==
    IF todo.dueAt = "" THEN Null
    ELSE IF todo.allDay THEN resolveAllDay(todo, s)
    ELSE resolveTimed(todo, s, localOffset)

----------------------------------------------------------------------------
(* The tables. A table is a function from the primary keys present to rows. *)

Users == {"A", "B"}
TodoIds == {"t1", "t2"}
ProjectIds == {"p1", "p2"}
CommentIds == {"c1", "c2"}
SubItemIds == {"s1", "s2"}

NO_PROJECT_GROUP == "no-project"

Put(tbl, k, row) == [x \in (DOMAIN tbl) \cup {k} |-> IF x = k THEN row ELSE tbl[x]]

Remove(tbl, ks) == [x \in (DOMAIN tbl) \ ks |-> tbl[x]]

\* UPDATE ... SET ... WHERE: rows satisfying Where(row) become Set(row)
Update(tbl, Where(_), Set(_)) ==
    [x \in DOMAIN tbl |-> IF Where(tbl[x]) THEN Set(tbl[x]) ELSE tbl[x]]

Select(tbl, Where(_)) == {x \in DOMAIN tbl : Where(tbl[x])}

\* generateId: an id no row of the table has (nor any handler has taken)
FreshIds(pool, tbl) == pool \ DOMAIN tbl

Ok(v) == [ok |-> TRUE, value |-> v]
Throw(msg) == [ok |-> FALSE, error |-> msg]

----------------------------------------------------------------------------
(* db/commentsRepository.ts                                                 *)

CommentsAdd(tbl, u, input, commentId, now) ==
    IF ~Truthy(input.todoId) \/ ~Truthy(input.text)
    THEN [comments |-> tbl, ret |-> Throw("Todo id and text are required")]
    ELSE LET createdAt == Coalesce(input.createdAt, Val(now)).v
         IN [comments |-> Put(tbl, commentId,
                              [id |-> commentId, todo_id |-> input.todoId.v,
                               text |-> input.text.v, created_at |-> createdAt,
                               user_id |-> Val(u)]),
             ret |-> Ok([id |-> commentId, todoId |-> input.todoId.v,
                         text |-> input.text.v, createdAt |-> createdAt])]

CommentsDelete(tbl, u, todoId, commentId) ==
    LET match(r) == r.id = commentId /\ r.todo_id = todoId /\ r.user_id = Val(u)
        rows == Select(tbl, match)
    IN IF rows = {} THEN [comments |-> tbl, ret |-> FALSE]
       ELSE [comments |-> Remove(tbl, rows), ret |-> TRUE]

\* The rows of list(todoId); the ORDER BY created_at is not modelled
CommentsList(tbl, u, todoId) ==
    {[id |-> tbl[c].id, todoId |-> tbl[c].todo_id, text |-> tbl[c].text,
      createdAt |-> tbl[c].created_at] :
        c \in Select(tbl, LAMBDA r : r.todo_id = todoId /\ r.user_id = Val(u))}

----------------------------------------------------------------------------
(* db/subItemsRepository.ts                                                 *)

SubItemsAdd(tbl, u, input, subItemId, now) ==
    IF ~Truthy(input.todoId) \/ ~Truthy(input.text)
    THEN [subitems |-> tbl, ret |-> Throw("Todo id and text are required")]
    ELSE LET sortOrder == Coalesce(input.sortOrder, Val(0)).v
         IN [subitems |-> Put(tbl, subItemId,
                              [id |-> subItemId, todo_id |-> input.todoId.v,
                               text |-> input.text.v, completed_at |-> Null,
                               sort_order |-> sortOrder, created_at |-> now,
                               updated_at |-> now, user_id |-> Val(u)]),
             ret |-> Ok([id |-> subItemId, todoId |-> input.todoId.v,
                         text |-> input.text.v, completedAt |-> Null,
                         sortOrder |-> sortOrder, createdAt |-> now,
                         updatedAt |-> now])]

SubItemsDelete(tbl, u, todoId, subItemId) ==
    LET match(r) == r.id = subItemId /\ r.todo_id = todoId /\ r.user_id = Val(u)
        rows == Select(tbl, match)
    IN IF rows = {} THEN [subitems |-> tbl, ret |-> FALSE]
       ELSE [subitems |-> Remove(tbl, rows), ret |-> TRUE]

\* The rows of list(todoId); the ORDER BY sort_order, created_at is not modelled
SubItemsList(tbl, u, todoId) ==
    {[id |-> tbl[c].id, todoId |-> tbl[c].todo_id, text |-> tbl[c].text,
      completedAt |-> tbl[c].completed_at, sortOrder |-> tbl[c].sort_order,
      createdAt |-> tbl[c].created_at, updatedAt |-> tbl[c].updated_at] :
        c \in Select(tbl, LAMBDA r : r.todo_id = todoId /\ r.user_id = Val(u))}

SubItemsToggle_AlwaysCompletes(tbl, u, todoId, subItemId, now) ==
    LET match(r) == r.id = subItemId /\ r.todo_id = todoId /\ r.user_id = Val(u)
    IN IF Select(tbl, match) = {} THEN [subitems |-> tbl, ret |-> FALSE]
       ELSE [subitems |-> Update(tbl, match,
                 LAMBDA r : [r EXCEPT !.completed_at = Val(now), !.updated_at = now]),
             ret |-> TRUE]

SubItemsToggle(tbl, u, todoId, subItemId, now) ==
    LET match(r) == r.id = subItemId /\ r.todo_id = todoId /\ r.user_id = Val(u)
        rows == Select(tbl, match)
        row == tbl[CHOOSE x \in rows : TRUE]
        nextValue == IF row.completed_at.kind = "val" THEN Null ELSE Val(now)
    IN IF rows = {} THEN [subitems |-> tbl, ret |-> FALSE]
       ELSE [subitems |-> Update(tbl, match,
                 LAMBDA r : [r EXCEPT !.completed_at = nextValue, !.updated_at = now]),
             ret |-> TRUE]

\* toggle, statement by statement.  The SELECT: completed_at of rows[0], or
\* Undefined when no row matches
SubItemsToggleSelect(tbl, u, todoId, subItemId) ==
    LET match(r) == r.id = subItemId /\ r.todo_id = todoId /\ r.user_id = Val(u)
        rows == Select(tbl, match)
    IN IF rows = {} THEN Undefined ELSE tbl[CHOOSE x \in rows : TRUE].completed_at

\* An UPDATE that computes the new value from the row as it is when written
SubItemsToggleUpdate_FromRow(tbl, u, todoId, subItemId, completed_at, now) ==
    LET match(r) == r.id = subItemId /\ r.todo_id = todoId /\ r.user_id = Val(u)
    IN Update(tbl, match,
           LAMBDA r : [r EXCEPT !.completed_at = IF r.completed_at.kind = "val"
                                                 THEN Null ELSE Val(now),
                                !.updated_at = now])

\* The UPDATE: nextValue comes from the completed_at the SELECT returned
SubItemsToggleUpdate(tbl, u, todoId, subItemId, completed_at, now) ==
    LET match(r) == r.id = subItemId /\ r.todo_id = todoId /\ r.user_id = Val(u)
        nextValue == IF completed_at.kind = "val" THEN Null ELSE Val(now)
    IN Update(tbl, match,
           LAMBDA r : [r EXCEPT !.completed_at = nextValue, !.updated_at = now])

----------------------------------------------------------------------------
(* db/todosRepository.ts                                                    *)

\* rows.map((row) => ({...})): a row of ext_work_manager_todos as a WorkTodo
rowToTodo(row) ==
    [id |-> row.id,
     projectId |-> row.project_id,
     title |-> row.title,
     description |-> IF row.description.kind = "val" THEN row.description ELSE Undefined,
     icon |-> row.icon,
     status |-> row.status,
     dueAt |-> row.due_at,
     date |-> row.date,
     time |-> row.time,
     allDay |-> row.all_day # 0,
     reminderMinutes |-> row.reminder_minutes,
     createdAt |-> row.created_at,
     updatedAt |-> row.updated_at]

ListAll == [projectId |-> Undefined, status |-> Undefined]

\* list(options): no condition names the user. The LIKE filter, the ORDER BY
\* due_at and LIMIT/OFFSET are not modelled
TodosList(tbl, u, options) ==
    {rowToTodo(tbl[t]) :
        t \in Select(tbl, LAMBDA r :
            /\ Truthy(options.projectId) => r.project_id = options.projectId
            /\ Truthy(options.status) => r.status = options.status.v)}

\* The characters of an ISO timestamp in the order of their codes (BINARY collation)
CollationChars == "+-.0123456789:TZ"

CharCode(c) == CHOOSE i \in 1..Len(CollationChars) : charAt(CollationChars, i - 1) = c

\* a <= b as SQLite compares TEXT
RECURSIVE TextLeq(_, _)
TextLeq(a, b) ==
    IF Len(a) = 0 THEN TRUE
    ELSE IF Len(b) = 0 THEN FALSE
    ELSE IF charAt(a, 0) # charAt(b, 0) THEN CharCode(charAt(a, 0)) < CharCode(charAt(b, 0))
    ELSE TextLeq(slice(a, 1, Len(a)), slice(b, 1, Len(b)))

\* list({ limit, offset }): no condition is pushed, so no WHERE; ORDER BY due_at
\* ASC LIMIT ? OFFSET ?.  Rows of equal due_at come in one fixed order for one
\* state of the table.
TodosListPage(tbl, u, limit, offset) ==
    LET n == Cardinality(DOMAIN tbl)
        ordered == CHOOSE s \in [1..n -> DOMAIN tbl] :
                       \A i, j \in 1..n :
                           i < j => /\ s[i] # s[j]
                                    /\ TextLeq(tbl[s[i]].due_at, tbl[s[j]].due_at)
        end == IF offset + limit < n THEN offset + limit ELSE n
    IN [i \in 1..(end - offset) |-> rowToTodo(tbl[ordered[offset + i]])]

\* get(id): WHERE id = ?; the comments and subitems are the caller's
TodosGet(tbl, cTbl, sTbl, u, id) ==
    IF id \notin DOMAIN tbl THEN Null
    ELSE Val([k \in (DOMAIN rowToTodo(tbl[id])) \cup {"comments", "subItems"} |->
                 IF k = "comments" THEN CommentsList(cTbl, u, id)
                 ELSE IF k = "subItems" THEN SubItemsList(sTbl, u, id)
                 ELSE rowToTodo(tbl[id])[k]])

EmptyTodoInput ==
    [projectId |-> Undefined, title |-> Undefined, description |-> Undefined,
     icon |-> Undefined, status |-> Undefined, dueAt |-> Undefined,
     date |-> Undefined, time |-> Undefined, allDay |-> Undefined,
     reminderMinutes |-> Undefined]

\* The merge with description taken from the input alone
mergeTodo_DropsDescription(existing, input, now) ==
    [existing EXCEPT
        !.projectId = IF normalizeOptionalString(input.projectId) = Undefined
                      THEN Coalesce(existing.projectId, Null)
                      ELSE normalizeOptionalString(input.projectId),
        !.title = Coalesce(input.title, Val(existing.title)).v,
        !.description = input.description,
        !.icon = Coalesce(input.icon, Val(existing.icon)).v,
        !.status = Coalesce(input.status, Val(existing.status)).v,
        !.dueAt = Coalesce(input.dueAt, Val(existing.dueAt)).v,
        !.date = Coalesce(input.date, Val(existing.date)).v,
        !.time = Coalesce(input.time, Val(existing.time)).v,
        !.allDay = Coalesce(input.allDay, Val(existing.allDay)).v,
        !.reminderMinutes = IF input.reminderMinutes # Undefined
                            THEN input.reminderMinutes
                            ELSE existing.reminderMinutes,
        !.createdAt = existing.createdAt,
        !.updatedAt = now]

\* The merge of upsert's branch for an existing record
mergeTodo(existing, input, now) ==
    LET normalizedProjectId == normalizeOptionalString(input.projectId)
    IN [existing EXCEPT
           !.projectId = IF normalizedProjectId = Undefined
                         THEN Coalesce(existing.projectId, Null)
                         ELSE normalizedProjectId,
           !.title = Coalesce(input.title, Val(existing.title)).v,
           !.description = Coalesce(input.description,
                                    Coalesce(existing.description, Undefined)),
           !.icon = Coalesce(input.icon, Val(existing.icon)).v,
           !.status = Coalesce(input.status, Val(existing.status)).v,
           !.dueAt = Coalesce(input.dueAt, Val(existing.dueAt)).v,
           !.date = Coalesce(input.date, Val(existing.date)).v,
           !.time = Coalesce(input.time, Val(existing.time)).v,
           !.allDay = Coalesce(input.allDay, Val(existing.allDay)).v,
           !.reminderMinutes = IF input.reminderMinutes # Undefined
                               THEN input.reminderMinutes
                               ELSE existing.reminderMinutes,
           !.createdAt = existing.createdAt,
           !.updatedAt = now]

\* UPDATE ext_work_manager_todos SET ... WHERE id = ?
updateTodoRow(tbl, todoId, merged, derived, now) ==
    Update(tbl, LAMBDA r : r.id = todoId,
           LAMBDA r : [r EXCEPT
               !.project_id = merged.projectId,
               !.title = merged.title,
               !.description = Coalesce(merged.description, Null),
               !.icon = merged.icon,
               !.status = merged.status,
               !.due_at = merged.dueAt,
               !.date = derived.date,
               !.time = derived.time,
               !.all_day = IF merged.allDay THEN 1 ELSE 0,
               !.reminder_minutes = Coalesce(merged.reminderMinutes, Null),
               !.updated_at = now])

\* INSERT INTO ext_work_manager_todos (...): the column list has no user_id
insertTodoRow(tbl, todoId, projectId, input, dueAt, derived, now) ==
    Put(tbl, todoId,
        [id |-> todoId,
         project_id |-> projectId,
         title |-> input.title.v,
         description |-> Coalesce(input.description, Null),
         icon |-> input.icon.v,
         status |-> input.status.v,
         due_at |-> dueAt,
         date |-> derived.date,
         time |-> derived.time,
         all_day |-> IF input.allDay.kind = "val" /\ input.allDay.v THEN 1 ELSE 0,
         reminder_minutes |-> Coalesce(input.reminderMinutes, Null),
         created_at |-> now,
         updated_at |-> now,
         user_id |-> Null])

\* upsert(id, input); freshId is what generateId('todo') returns
TodosUpsert(tbl, cTbl, sTbl, u, id, input, freshId, now) ==
    LET normalizedId == normalizeOptionalString(id)
        todoId == Coalesce(normalizedId, Val(freshId)).v
        existing == TodosGet(tbl, cTbl, sTbl, u, todoId)
        normalizedProjectId == normalizeOptionalString(input.projectId)
    IN IF existing.kind = "val"
       THEN LET merged == mergeTodo(existing.v, input, now)
                derived == deriveDateTime(Val(merged.dueAt), Val(merged.date),
                                          Val(merged.time), Val(merged.allDay))
            IN [todos |-> updateTodoRow(tbl, todoId, merged, derived, now),
                inserted |-> FALSE,
                ret |-> Ok([merged EXCEPT !.date = derived.date,
                                          !.time = derived.time,
                                          !.updatedAt = now])]
       ELSE IF ~Truthy(input.title) \/ ~Truthy(input.icon) \/ ~Truthy(input.status)
       THEN [todos |-> tbl, inserted |-> FALSE,
             ret |-> Throw("Todo title, icon, and status are required")]
       ELSE LET dueAt == Coalesce(input.dueAt, Val("")).v
                derived == deriveDateTime(Val(dueAt), input.date, input.time,
                                          input.allDay)
                projectId == Coalesce(normalizedProjectId, Null)
            IN IF dueAt = ""
               THEN [todos |-> tbl, inserted |-> FALSE,
                     ret |-> Throw("Todo dueAt is required")]
               ELSE [todos |-> insertTodoRow(tbl, todoId, projectId, input, dueAt,
                                             derived, now),
                     inserted |-> TRUE,
                     ret |-> Ok([id |-> todoId,
                                 projectId |-> projectId,
                                 title |-> input.title.v,
                                 description |-> Coalesce(input.description, Undefined),
                                 icon |-> input.icon.v,
                                 status |-> input.status.v,
                                 dueAt |-> dueAt,
                                 date |-> derived.date,
                                 time |-> derived.time,
                                 allDay |-> Coalesce(input.allDay, Val(FALSE)).v,
                                 reminderMinutes |->
                                     Coalesce(input.reminderMinutes, Null),
                                 createdAt |-> now,
                                 updatedAt |-> now])]

\* delete(id), statement by statement
\* SELECT id FROM ext_work_manager_todos WHERE id = ?
TodosDeleteSelect(tbl, id) == Select(tbl, LAMBDA r : r.id = id)

\* DELETE FROM ext_work_manager_comments WHERE todo_id = ?
TodosDeleteComments(cTbl, id) == Remove(cTbl, Select(cTbl, LAMBDA r : r.todo_id = id))

\* The sub-item DELETE keyed by the row's own id instead of todo_id
TodosDeleteSubItems_ById(sTbl, id) == Remove(sTbl, Select(sTbl, LAMBDA r : r.id = id))

\* DELETE FROM ext_work_manager_subitems WHERE todo_id = ?
TodosDeleteSubItems(sTbl, id) == Remove(sTbl, Select(sTbl, LAMBDA r : r.todo_id = id))

\* DELETE FROM ext_work_manager_todos WHERE id = ?
TodosDeleteRow(tbl, id) == Remove(tbl, Select(tbl, LAMBDA r : r.id = id))

----------------------------------------------------------------------------
(* db/projectsRepository.ts                                                 *)

rowToProject(row) ==
    [id |-> row.id, name |-> row.name,
     description |-> IF row.description.kind = "val" THEN row.description ELSE Undefined,
     createdAt |-> row.created_at, updatedAt |-> row.updated_at]

\* list(): WHERE user_id = ?; the LIKE filter, ORDER BY name and LIMIT/OFFSET
\* are not modelled
ProjectsList(tbl, u) ==
    {rowToProject(tbl[x]) : x \in Select(tbl, LAMBDA r : r.user_id = Val(u))}

ProjectsGet(tbl, u, id) ==
    IF id \in DOMAIN tbl /\ tbl[id].user_id = Val(u)
    THEN Val(rowToProject(tbl[id])) ELSE Null

\* upsert(id, input); freshId is what generateId('proj') returns. id is the
\* table's PRIMARY KEY: the INSERT of an id another user's row has fails
ProjectsUpsert(tbl, u, id, input, freshId, now) ==
    LET projectId == Coalesce(id, Val(freshId)).v
        existing == ProjectsGet(tbl, u, projectId)
    IN IF existing.kind = "val"
       THEN LET name == Coalesce(input.name, Val(existing.v.name)).v
                description == Coalesce(input.description,
                                        Coalesce(existing.v.description, Null))
            IN [projects |-> Update(tbl,
                    LAMBDA r : r.id = projectId /\ r.user_id = Val(u),
                    LAMBDA r : [r EXCEPT !.name = name, !.description = description,
                                         !.updated_at = now]),
                ret |-> Ok([id |-> projectId, name |-> name,
                            description |-> Coalesce(description, Undefined),
                            createdAt |-> existing.v.createdAt, updatedAt |-> now])]
       ELSE IF ~Truthy(input.name)
       THEN [projects |-> tbl, ret |-> Throw("Project name is required")]
       ELSE IF projectId \in DOMAIN tbl
       THEN [projects |-> tbl, ret |-> Throw("UNIQUE constraint failed")]
       ELSE [projects |-> Put(tbl, projectId,
                 [id |-> projectId, name |-> input.name.v,
                  description |-> Coalesce(input.description, Null),
                  created_at |-> now, updated_at |-> now, user_id |-> Val(u)]),
             ret |-> Ok([id |-> projectId, name |-> input.name.v,
                         description |-> Coalesce(input.description, Undefined),
                         createdAt |-> now, updatedAt |-> now])]

\* UPDATE ext_work_manager_todos SET project_id = NULL
\*   WHERE project_id = ? AND user_id = ?
ProjectsDeleteDetach(tTbl, u, id) ==
    Update(tTbl, LAMBDA r : r.project_id = Val(id) /\ r.user_id = Val(u),
           LAMBDA r : [r EXCEPT !.project_id = Null])

ProjectsDelete(tbl, tTbl, u, id) ==
    LET match(r) == r.id = id /\ r.user_id = Val(u)
        rows == Select(tbl, match)
    IN IF rows = {} THEN [projects |-> tbl, todos |-> tTbl, ret |-> FALSE]
       ELSE [projects |-> Remove(tbl, rows),
             todos |-> ProjectsDeleteDetach(tTbl, u, id),
             ret |-> TRUE]

----------------------------------------------------------------------------
(* db/panelRepository.ts                                                    *)

\* listGroups(): one group per project of the user and the 'No Project'
\* group, as a function of the group id; the order of the groups and of the
\* items is not modelled
PanelListGroups(pTbl, gTbl, tTbl, cTbl, sTbl, u) ==
    LET mine(tbl) == Select(tbl, LAMBDA r : r.user_id = Val(u))
        groupIds == mine(pTbl) \cup {NO_PROJECT_GROUP}
        collapsed(g) == g \in mine(gTbl) /\ gTbl[g].collapsed # 0
        groupOf(t) ==
            LET projectId == normalizeOptionalString(tTbl[t].project_id)
                groupId == Coalesce(projectId, Val(NO_PROJECT_GROUP)).v
            IN IF groupId \in groupIds THEN groupId ELSE NO_PROJECT_GROUP
        item(t) ==
            [id |-> t, title |-> tTbl[t].title, status |-> tTbl[t].status,
             date |-> tTbl[t].date, time |-> tTbl[t].time,
             allDay |-> tTbl[t].all_day # 0,
             comments |-> {c \in mine(cTbl) : cTbl[c].todo_id = t},
             subItems |-> {x \in mine(sTbl) : sTbl[x].todo_id = t}]
    IN [g \in groupIds |->
           [id |-> g,
            title |-> IF g = NO_PROJECT_GROUP THEN "No Project" ELSE pTbl[g].name,
            collapsed |-> collapsed(g),
            items |-> {item(t) : t \in {x \in mine(tTbl) : groupOf(x) = g}}]]

\* setGroupCollapsed(groupId, collapsed). group_id is the table's PRIMARY
\* KEY: the INSERT of a group id another user's row has fails
PanelSetGroupCollapsed(gTbl, pTbl, u, groupId, collapsed, now) ==
    LET projectRows == Select(pTbl, LAMBDA r : r.id = groupId /\ r.user_id = Val(u))
        match(r) == r.group_id = groupId /\ r.user_id = Val(u)
        existing == Select(gTbl, match)
    IN IF groupId # NO_PROJECT_GROUP /\ projectRows = {}
       THEN [groupState |-> gTbl, ret |-> Ok(FALSE)]
       ELSE IF existing # {}
       THEN [groupState |-> Update(gTbl, match,
                 LAMBDA r : [r EXCEPT !.collapsed = IF collapsed THEN 1 ELSE 0,
                                      !.updated_at = now]),
             ret |-> Ok(TRUE)]
       ELSE IF groupId \in DOMAIN gTbl
       THEN [groupState |-> gTbl, ret |-> Throw("UNIQUE constraint failed")]
       ELSE [groupState |-> Put(gTbl, groupId,
                 [group_id |-> groupId, collapsed |-> IF collapsed THEN 1 ELSE 0,
                  updated_at |-> now, user_id |-> Val(u)]),
             ret |-> Ok(TRUE)]

----------------------------------------------------------------------------
(* The repository facade bound to a user (repository.withUser(userId)): each *)
(* operation is the entity repository's, run with that user's id. A handler  *)
(* reads the clock once; the handlers of Spec run one at a time.             *)

\* repository.withUser(userId): the facade whose repositories run with userId
withUser(userId) == userId

Idle == [pc |-> "idle"]

NoCall == [op |-> "none"]

Fresh(pool, tbl) ==
    IF FreshIds(pool, tbl) = {} THEN "" ELSE CHOOSE x \in FreshIds(pool, tbl) : TRUE

CanStart == call = Idle

\* Who created each row: the rows a step inserts are the acting user's, the
\* rows it deletes are forgotten
Credit(cr, old, new, u) ==
    [x \in ((DOMAIN cr) \ ((DOMAIN old) \ (DOMAIN new))) \cup ((DOMAIN new) \ (DOMAIN old)) |->
        IF x \in (DOMAIN new) \ (DOMAIN old) THEN u ELSE cr[x]]

Tick == clock' = clock + 1

UpsertProject(u, id, input) ==
    /\ CanStart
    /\ id = Undefined => FreshIds(ProjectIds, projects) # {}
    /\ LET r == ProjectsUpsert(projects, withUser(u), id, input, Fresh(ProjectIds, projects),
                               clock + 1)
       IN /\ projects' = r.projects
          /\ creator' = Credit(creator, projects, r.projects, u)
          /\ last' = [op |-> "upsertProject", user |-> u, id |-> id, ok |-> r.ret.ok,
                      input |-> input, ret |-> r.ret]
    /\ Tick
    /\ UNCHANGED <<todos, comments, subitems, groupState, settings, call>>
    /\ UNCHANGED <<schedVars, remVars, initVars, hostVars>>

DeleteProject(u, id) ==
    /\ CanStart
    /\ LET r == ProjectsDelete(projects, todos, withUser(u), id)
       IN /\ projects' = r.projects
          /\ todos' = r.todos
          /\ creator' = Credit(creator, projects, r.projects, u)
          /\ last' = [op |-> "deleteProject", user |-> u, id |-> id, ok |-> r.ret,
                      before |-> todos]
    /\ Tick
    /\ UNCHANGED <<comments, subitems, groupState, settings, call>>
    /\ UNCHANGED <<schedVars, remVars, initVars, hostVars>>

UpsertTodo(u, id, input) ==
    /\ CanStart
    /\ normalizeOptionalString(id).kind # "val" => FreshIds(TodoIds, todos) # {}
    /\ LET r == TodosUpsert(todos, comments, subitems, withUser(u), id, input,
                            Fresh(TodoIds, todos), clock + 1)
       IN /\ todos' = r.todos
          /\ creator' = Credit(creator, todos, r.todos, u)
          /\ last' = [op |-> "upsertTodo", user |-> u, id |-> id, ok |-> r.ret.ok,
                      input |-> input, inserted |-> r.inserted, ret |-> r.ret,
                      before |-> todos]
    /\ Tick
    /\ UNCHANGED <<projects, comments, subitems, groupState, settings, call>>
    /\ UNCHANGED <<schedVars, remVars, initVars, hostVars>>

DeleteTodoSelect(u, id) ==
    /\ CanStart
    /\ IF TodosDeleteSelect(todos, id) = {}
       THEN /\ last' = [op |-> "deleteTodo", user |-> u, id |-> id, ok |-> FALSE]
            /\ UNCHANGED call
       ELSE /\ call' = [pc |-> "comments", op |-> "deleteTodo", user |-> u, id |-> id,
                       comments |-> {}, subItems |-> {}]
            /\ UNCHANGED last
    /\ Tick
    /\ UNCHANGED <<dbVars, schedVars, remVars, initVars, hostVars>>

DeleteTodoComments ==
    /\ call.pc = "comments"
    /\ comments' = TodosDeleteComments(comments, call.id)
    /\ creator' = Credit(creator, comments, comments', call.user)
    /\ call' = [call EXCEPT !.pc = "subitems",
                            !.comments = (DOMAIN comments) \ (DOMAIN comments')]
    /\ UNCHANGED <<projects, todos, subitems, groupState, settings>>
    /\ UNCHANGED <<clock, last, schedVars, remVars, initVars, hostVars>>

DeleteTodoSubItems ==
    /\ call.pc = "subitems"
    /\ subitems' = TodosDeleteSubItems(subitems, call.id)
    /\ creator' = Credit(creator, subitems, subitems', call.user)
    /\ call' = [call EXCEPT !.pc = "todo",
                            !.subItems = (DOMAIN subitems) \ (DOMAIN subitems')]
    /\ UNCHANGED <<projects, todos, comments, groupState, settings>>
    /\ UNCHANGED <<clock, last, schedVars, remVars, initVars, hostVars>>

DeleteTodoRow ==
    /\ call.pc = "todo"
    /\ todos' = TodosDeleteRow(todos, call.id)
    /\ creator' = Credit(creator, todos, todos', call.user)
    /\ last' = [op |-> "deleteTodo", user |-> call.user, id |-> call.id, ok |-> TRUE,
                comments |-> call.comments, subItems |-> call.subItems]
    /\ call' = Idle
    /\ UNCHANGED <<projects, comments, subitems, groupState, settings>>
    /\ UNCHANGED <<clock, schedVars, remVars, initVars, hostVars>>

AddComment(u, input) ==
    /\ CanStart
    /\ FreshIds(CommentIds, comments) # {}
    /\ LET r == CommentsAdd(comments, withUser(u), input, Fresh(CommentIds, comments), clock + 1)
       IN /\ comments' = r.comments
          /\ creator' = Credit(creator, comments, r.comments, u)
          /\ last' = [op |-> "addComment", user |-> u, ok |-> r.ret.ok, ret |-> r.ret]
    /\ Tick
    /\ UNCHANGED <<projects, todos, subitems, groupState, settings, call>>
    /\ UNCHANGED <<schedVars, remVars, initVars, hostVars>>

DeleteComment(u, todoId, commentId) ==
    /\ CanStart
    /\ LET r == CommentsDelete(comments, withUser(u), todoId, commentId)
       IN /\ comments' = r.comments
          /\ creator' = Credit(creator, comments, r.comments, u)
          /\ last' = [op |-> "deleteComment", user |-> u, id |-> commentId,
                      ok |-> r.ret]
    /\ Tick
    /\ UNCHANGED <<projects, todos, subitems, groupState, settings, call>>
    /\ UNCHANGED <<schedVars, remVars, initVars, hostVars>>

AddSubItem(u, input) ==
    /\ CanStart
    /\ FreshIds(SubItemIds, subitems) # {}
    /\ LET r == SubItemsAdd(subitems, withUser(u), input, Fresh(SubItemIds, subitems), clock + 1)
       IN /\ subitems' = r.subitems
          /\ creator' = Credit(creator, subitems, r.subitems, u)
          /\ last' = [op |-> "addSubItem", user |-> u, ok |-> r.ret.ok, ret |-> r.ret]
    /\ Tick
    /\ UNCHANGED <<projects, todos, comments, groupState, settings, call>>
    /\ UNCHANGED <<schedVars, remVars, initVars, hostVars>>

DeleteSubItem(u, todoId, subItemId) ==
    /\ CanStart
    /\ LET r == SubItemsDelete(subitems, withUser(u), todoId, subItemId)
       IN /\ subitems' = r.subitems
          /\ creator' = Credit(creator, subitems, r.subitems, u)
          /\ last' = [op |-> "deleteSubItem", user |-> u, id |-> subItemId,
                      ok |-> r.ret]
    /\ Tick
    /\ UNCHANGED <<projects, todos, comments, groupState, settings, call>>
    /\ UNCHANGED <<schedVars, remVars, initVars, hostVars>>

ToggleSubItem(u, todoId, subItemId) ==
    /\ CanStart
    /\ LET r == SubItemsToggle(subitems, withUser(u), todoId, subItemId, clock + 1)
       IN /\ subitems' = r.subitems
          /\ last' = [op |-> "toggleSubItem", user |-> u, id |-> subItemId,
                      todoId |-> todoId, ok |-> r.ret,
                      was |-> IF r.ret THEN subitems[subItemId].completed_at
                              ELSE Undefined]
    /\ Tick
    /\ UNCHANGED <<projects, todos, comments, groupState, settings, creator, call>>
    /\ UNCHANGED <<schedVars, remVars, initVars, hostVars>>

SetGroupCollapsed(u, groupId, collapsed) ==
    /\ CanStart
    /\ LET r == PanelSetGroupCollapsed(groupState, projects, withUser(u), groupId, collapsed,
                                       clock + 1)
       IN /\ groupState' = r.groupState
          /\ last' = [op |-> "setGroupCollapsed", user |-> u, id |-> groupId,
                      collapsed |-> collapsed, ok |-> r.ret.ok, ret |-> r.ret]
    /\ Tick
    /\ UNCHANGED <<projects, todos, comments, subitems, settings, creator, call>>
    /\ UNCHANGED <<schedVars, remVars, initVars, hostVars>>

\* The reads of the facade bound to u
listTodos(u) == TodosList(todos, withUser(u), ListAll)
getTodo(u, id) == TodosGet(todos, comments, subitems, withUser(u), id)
listProjects(u) == ProjectsList(projects, withUser(u))
getProject(u, id) == ProjectsGet(projects, withUser(u), id)
listComments(u, todoId) == CommentsList(comments, withUser(u), todoId)
listSubItems(u, todoId) == SubItemsList(subitems, withUser(u), todoId)
listPanelGroups(u) == PanelListGroups(projects, groupState, todos, comments, subitems, withUser(u))

----------------------------------------------------------------------------
(* Spec: two users work through their facades on the shared tables.          *)

RemIdle == rTodo = <<>> /\ rSettings = <<>> /\ rResult = <<>> /\ tz = 0

SchedIdle == jobs = <<>> /\ callbacks = {}

\* activate has not run and nothing was sent to chat
HostIdle == registrations = <<>> /\ activation = "none" /\ chat = <<>>

\* No initialize() has run on the connection
InitIdle == initializedDatabases = FALSE /\ setups = 0

Init ==
    /\ projects = <<>> /\ todos = <<>> /\ comments = <<>> /\ subitems = <<>>
    /\ groupState = <<>> /\ settings = <<>> /\ creator = <<>>
    /\ clock = 0 /\ call = Idle /\ last = NoCall
    /\ SchedIdle /\ RemIdle /\ InitIdle /\ HostIdle

ProjectInputs ==
    {[name |-> Val("Work"), description |-> Undefined],
     [name |-> Undefined, description |-> Val("notes")]}

NewTodo ==
    [EmptyTodoInput EXCEPT !.title = Val("Report"), !.icon = Val("doc"),
                           !.status = Val("not_started"),
                           !.dueAt = Val("2025-03-01T10:00:00Z")]

TodoInputs ==
    {NewTodo, [NewTodo EXCEPT !.projectId = Val("p1")],
     [EmptyTodoInput EXCEPT !.status = Val("completed")]}

ChildInputs ==
    {[todoId |-> Val(t), text |-> Val("x"), createdAt |-> Undefined,
      sortOrder |-> Undefined] : t \in TodoIds}

OptionalIds(pool) == {Undefined} \cup {Val(x) : x \in pool}

MaxClock == 3

Next ==
    \/ \E u \in Users, id \in OptionalIds(ProjectIds), input \in ProjectInputs :
           clock < MaxClock /\ UpsertProject(u, id, input)
    \/ \E u \in Users, id \in ProjectIds : clock < MaxClock /\ DeleteProject(u, id)
    \/ \E u \in Users, id \in OptionalIds(TodoIds), input \in TodoInputs :
           clock < MaxClock /\ UpsertTodo(u, id, input)
    \/ \E u \in Users, id \in TodoIds : clock < MaxClock /\ DeleteTodoSelect(u, id)
    \/ DeleteTodoComments
    \/ DeleteTodoSubItems
    \/ DeleteTodoRow
    \/ \E u \in Users, input \in ChildInputs : clock < MaxClock /\ AddComment(u, input)
    \/ \E u \in Users, t \in TodoIds, c \in CommentIds :
           clock < MaxClock /\ DeleteComment(u, t, c)
    \/ \E u \in Users, input \in ChildInputs : clock < MaxClock /\ AddSubItem(u, input)
    \/ \E u \in Users, t \in TodoIds, x \in SubItemIds :
           clock < MaxClock /\ DeleteSubItem(u, t, x)
    \/ \E u \in Users, t \in TodoIds, x \in SubItemIds :
           clock < MaxClock /\ ToggleSubItem(u, t, x)
    \/ \E u \in Users, g \in ProjectIds \cup {NO_PROJECT_GROUP}, c \in BOOLEAN :
           clock < MaxClock /\ SetGroupCollapsed(u, g, c)

Spec == Init /\ [][Next]_vars

----------------------------------------------------------------------------
(* SpecCascade: todos are created, given comments and sub-items, and deleted *)
(* statement by statement.                                                   *)

MaxCascadeOps == 4

NextCascade ==
    \/ \E u \in Users : clock < MaxCascadeOps /\ UpsertTodo(u, Undefined, NewTodo)
    \/ \E u \in Users, id \in TodoIds : clock < MaxCascadeOps /\ DeleteTodoSelect(u, id)
    \/ DeleteTodoComments
    \/ DeleteTodoSubItems
    \/ DeleteTodoRow
    \/ \E u \in Users, input \in ChildInputs : clock < MaxCascadeOps /\ AddComment(u, input)
    \/ \E u \in Users, input \in ChildInputs : clock < MaxCascadeOps /\ AddSubItem(u, input)

SpecCascade == Init /\ [][NextCascade]_vars

----------------------------------------------------------------------------
(* index.ts: the reminder scheduling around the upsert tool. The upsert tool *)
(* awaits the repository and then starts scheduleTodo without awaiting it;   *)
(* a started scheduleTodo proceeds at its awaits, interleaved with the       *)
(* handlers and with the other callbacks.                                    *)

getReminderJobId(todoId, userId) == "todo.reminder:" \o userId \o ":" \o todoId

DEFAULT_SETTINGS ==
    [defaultReminderMinutes |-> Null, allDayReminderTime |-> Null,
     reminderLocale |-> Null]

\* JSON.parse of a stored number-or-null and of a stored string-or-null
JSONParseNumber(value) == IF value = "null" THEN Null ELSE Val(ToNum(value))
JSONParseString(value) ==
    IF value = "null" THEN Null ELSE Val(slice(value, 1, Len(value) - 1))

\* SettingsRepository.get: the defaults overlaid with the rows of the table
SettingsGet(tbl) ==
    [defaultReminderMinutes |->
         IF "defaultReminderMinutes" \in DOMAIN tbl
         THEN JSONParseNumber(tbl["defaultReminderMinutes"].value)
         ELSE DEFAULT_SETTINGS.defaultReminderMinutes,
     allDayReminderTime |->
         IF "allDayReminderTime" \in DOMAIN tbl
         THEN JSONParseString(tbl["allDayReminderTime"].value)
         ELSE DEFAULT_SETTINGS.allDayReminderTime,
     reminderLocale |->
         IF "reminderLocale" \in DOMAIN tbl
         THEN JSONParseString(tbl["reminderLocale"].value)
         ELSE DEFAULT_SETTINGS.reminderLocale]

getSettings(u) == SettingsGet(settings)

RECURSIVE NumToStr(_)
\* String(n) for an integer n >= 0
NumToStr(n) ==
    IF n < 10 THEN charAt(DigitChars, n)
    ELSE NumToStr(n \div 10) \o charAt(DigitChars, n % 10)

\* JSON.stringify of a number-or-null and of a string-or-null (the strings
\* hold no character that JSON escapes)
JSONStringifyNumber(value) == IF value = Null THEN "null" ELSE NumToStr(value.v)
JSONStringifyString(value) == IF value = Null THEN "null" ELSE "\"" \o value.v \o "\""

\* A merge that takes every field from the update, absent ones as null
SettingsMerge_Overwrites(current, update) ==
    [defaultReminderMinutes |->
         IF update.defaultReminderMinutes # Undefined
         THEN update.defaultReminderMinutes ELSE Null,
     allDayReminderTime |->
         IF update.allDayReminderTime # Undefined
         THEN update.allDayReminderTime ELSE Null,
     reminderLocale |->
         IF update.reminderLocale # Undefined THEN update.reminderLocale ELSE Null]

\* `next` of SettingsRepository.update: each field of the update that is not
\* undefined, the current value otherwise
SettingsMerge(current, update) ==
    [defaultReminderMinutes |->
         IF update.defaultReminderMinutes # Undefined
         THEN update.defaultReminderMinutes ELSE current.defaultReminderMinutes,
     allDayReminderTime |->
         IF update.allDayReminderTime # Undefined
         THEN update.allDayReminderTime ELSE current.allDayReminderTime,
     reminderLocale |->
         IF update.reminderLocale # Undefined
         THEN update.reminderLocale ELSE current.reminderLocale]

\* SettingsRepository.update: the three keys upserted with the merged values
SettingsUpdate(tbl, update, now) ==
    LET current == SettingsGet(tbl)
        next == SettingsMerge(current, update)
        t1 == Put(tbl, "defaultReminderMinutes",
                  [key |-> "defaultReminderMinutes",
                   value |-> JSONStringifyNumber(next.defaultReminderMinutes),
                   updated_at |-> now])
        t2 == Put(t1, "allDayReminderTime",
                  [key |-> "allDayReminderTime",
                   value |-> JSONStringifyString(next.allDayReminderTime),
                   updated_at |-> now])
        t3 == Put(t2, "reminderLocale",
                  [key |-> "reminderLocale",
                   value |-> JSONStringifyString(next.reminderLocale),
                   updated_at |-> now])
    IN [settings |-> t3, ret |-> next]

\* WorkRepository.updateSettings through the facade of user u
UpdateSettings(u, update) ==
    /\ CanStart
    /\ LET r == SettingsUpdate(settings, update, clock + 1)
       IN /\ settings' = r.settings
          /\ last' = [op |-> "updateSettings", user |-> withUser(u), update |-> update,
                      ret |-> r.ret]
    /\ Tick
    /\ UNCHANGED <<projects, todos, comments, subitems, groupState, creator, call>>
    /\ UNCHANGED <<schedVars, remVars, initVars, hostVars>>

\* `entries` of SettingsRepository.update: the key and the JSON text of each
\* field of next, in the order they are written
SettingsEntries(next) ==
    <<[key |-> "defaultReminderMinutes",
       value |-> JSONStringifyNumber(next.defaultReminderMinutes)],
      [key |-> "allDayReminderTime", value |-> JSONStringifyString(next.allDayReminderTime)],
      [key |-> "reminderLocale", value |-> JSONStringifyString(next.reminderLocale)]>>

\* INSERT ... ON CONFLICT(key) DO UPDATE of one entry
SettingsWriteEntry(tbl, entry, now) ==
    Put(tbl, entry.key, [key |-> entry.key, value |-> entry.value, updated_at |-> now])

\* updateSettings up to the await of its first INSERT: current is read and
\* next and entries are computed
UpdateSettingsGet(u, update) ==
    /\ CanStart
    /\ LET next == SettingsMerge(SettingsGet(settings), update)
       IN callbacks' = callbacks \cup
              {[pc |-> "write", n |-> clock + 1, user |-> withUser(u), update |-> update,
                next |-> next, entries |-> SettingsEntries(next), now |-> clock + 1]}
    /\ last' = [op |-> "updateSettings.get", user |-> withUser(u), update |-> update]
    /\ Tick
    /\ UNCHANGED <<dbVars, call, jobs, remVars, initVars, hostVars>>

\* The next INSERT of the loop over entries; after the last one the call returns
UpdateSettingsWrite(c) ==
    /\ c \in callbacks /\ c.pc = "write"
    /\ settings' = SettingsWriteEntry(settings, Head(c.entries), c.now)
    /\ callbacks' = (callbacks \ {c}) \cup
           {[c EXCEPT !.entries = Tail(@),
                      !.pc = IF Len(c.entries) = 1 THEN "done" ELSE "write"]}
    /\ UNCHANGED <<projects, todos, comments, subitems, groupState, creator>>
    /\ UNCHANGED <<ctlVars, jobs, remVars, initVars, hostVars>>

----------------------------------------------------------------------------
(* SpecSettingsRace: updateSettings calls that overlap, each resuming at any *)
(* later moment after each statement it awaits.                              *)

MaxSettingsCalls == 2

EmptySettingsUpdate ==
    [defaultReminderMinutes |-> Undefined, allDayReminderTime |-> Undefined,
     reminderLocale |-> Undefined]

RaceUpdates ==
    {[EmptySettingsUpdate EXCEPT !.defaultReminderMinutes = Val(15)],
     [EmptySettingsUpdate EXCEPT !.allDayReminderTime = Val("08:00")],
     [EmptySettingsUpdate EXCEPT !.reminderLocale = Val("sv")]}

NextSettingsRace ==
    \/ \E u \in Users, update \in RaceUpdates :
           clock < MaxSettingsCalls /\ UpdateSettingsGet(u, update)
    \/ \E c \in callbacks : UpdateSettingsWrite(c)

SpecSettingsRace == Init /\ [][NextSettingsRace]_vars

----------------------------------------------------------------------------
(* SpecSettings: the users updating the settings with partial updates.       *)

MaxSettingsOps == 2

SettingsUpdates ==
    [defaultReminderMinutes : {Undefined, Null, Val(0), Val(15)},
     allDayReminderTime : {Undefined, Null, Val("08:00")},
     reminderLocale : {Undefined, Null, Val("sv")}]

NextSettings ==
    \E u \in Users, update \in SettingsUpdates :
        clock < MaxSettingsOps /\ UpdateSettings(u, update)

SpecSettings == Init /\ [][NextSettings]_vars

\* The host scheduler: a job per id; schedule replaces, cancel removes
SchedulerSchedule(js, job) == Put(js, job.id, job)
SchedulerCancel(js, jobId) == Remove(js, {jobId})

\* The upsert tool's parameter normalizers, for a string-or-null projectId
\* and a reminderMinutes that is absent, null or a finite number
normalizeProjectId(value) == normalizeOptionalString(value)
normalizeReminderMinutes(value) ==
    IF value = Undefined THEN Undefined
    ELSE IF value = Null THEN Null
    ELSE value

\* scheduleTodo(todo, userId) up to its first await
scheduleTodoStart(todo, userId, n) ==
    [n |-> n, user |-> userId, todo |-> todo, at |-> "",
     pc |-> IF ~isTodoActive(todo) THEN "cancel" ELSE "settings"]

UpsertTodoTool(u, id, params) ==
    /\ CanStart
    /\ normalizeOptionalString(id).kind # "val" => FreshIds(TodoIds, todos) # {}
    /\ LET normalized ==
               [params EXCEPT
                   !.projectId = normalizeProjectId(params.projectId),
                   !.reminderMinutes = normalizeReminderMinutes(params.reminderMinutes)]
           r == TodosUpsert(todos, comments, subitems, withUser(u), id, normalized,
                            Fresh(TodoIds, todos), clock + 1)
       IN /\ todos' = r.todos
          /\ creator' = Credit(creator, todos, r.todos, u)
          /\ callbacks' = IF r.ret.ok
                          THEN callbacks \cup {scheduleTodoStart(r.ret.value, u, clock + 1)}
                          ELSE callbacks
          /\ last' = [op |-> "upsertTodo", user |-> u, id |-> id, ok |-> r.ret.ok,
                      input |-> normalized, inserted |-> r.inserted, ret |-> r.ret,
                      before |-> todos]
    /\ Tick
    /\ UNCHANGED <<projects, comments, subitems, groupState, settings, call>>
    /\ UNCHANGED <<jobs, remVars, initVars, hostVars>>

\* scheduleTodo resumed with the settings it awaited
ScheduleTodoSettings(c) ==
    /\ c \in callbacks /\ c.pc = "settings"
    /\ LET reminderAt == resolveReminderAt(c.todo, getSettings(c.user), tz)
       IN callbacks' = (callbacks \ {c}) \cup
              {IF ~Truthy(reminderAt) THEN [c EXCEPT !.pc = "cancel"]
               ELSE [c EXCEPT !.pc = "schedule", !.at = reminderAt.v]}
    /\ UNCHANGED <<dbVars, ctlVars, jobs, remVars, initVars, hostVars>>

\* The scheduler.cancel(jobId) that scheduleTodo awaits
ScheduleTodoCancel(c) ==
    /\ c \in callbacks /\ c.pc = "cancel"
    /\ jobs' = SchedulerCancel(jobs, getReminderJobId(c.todo.id, c.user))
    /\ callbacks' = callbacks \ {c}
    /\ UNCHANGED <<dbVars, ctlVars, remVars, initVars, hostVars>>

\* The scheduler.schedule({...}) that scheduleTodo awaits
ScheduleTodoSchedule(c) ==
    /\ c \in callbacks /\ c.pc = "schedule"
    /\ jobs' = SchedulerSchedule(jobs,
                   [id |-> getReminderJobId(c.todo.id, c.user),
                    at |-> c.at, todoId |-> c.todo.id, userId |-> c.user])
    /\ callbacks' = callbacks \ {c}
    /\ UNCHANGED <<dbVars, ctlVars, remVars, initVars, hostVars>>

\* cancelTodo(todoId, userId) up to its await of scheduler.cancel
cancelTodoStart(todoId, userId, n) ==
    [n |-> n, user |-> userId, todo |-> [id |-> todoId], at |-> "", pc |-> "cancel"]

\* work_todos_delete: execute of createDeleteTodoTool with the onDelete callback
\* registered by activate (emitTodoRefresh, then void cancelTodo(todoId, userId))
DeleteTodoTool(u, id) ==
    /\ CanStart
    /\ IF id = ""
       THEN /\ last' = [op |-> "deleteTodoTool", user |-> u, id |-> id, ok |-> FALSE,
                        result |-> [success |-> FALSE, error |-> "Todo id is required"],
                        notified |-> FALSE]
            /\ UNCHANGED <<dbVars, callbacks>>
       ELSE IF TodosDeleteSelect(todos, id) = {}
       THEN /\ last' = [op |-> "deleteTodoTool", user |-> u, id |-> id, ok |-> FALSE,
                        result |-> [success |-> FALSE, error |-> "Todo not found"],
                        notified |-> FALSE]
            /\ UNCHANGED <<dbVars, callbacks>>
       ELSE /\ comments' = TodosDeleteComments(comments, id)
            /\ subitems' = TodosDeleteSubItems(subitems, id)
            /\ todos' = TodosDeleteRow(todos, id)
            /\ creator' = Credit(Credit(Credit(creator, comments, comments', u),
                                        subitems, subitems', u), todos, todos', u)
            /\ callbacks' = callbacks \cup {cancelTodoStart(id, u, clock + 1)}
            /\ last' = [op |-> "deleteTodoTool", user |-> u, id |-> id, ok |-> TRUE,
                        result |-> [success |-> TRUE], notified |-> TRUE]
            /\ UNCHANGED <<projects, groupState, settings>>
    /\ Tick
    /\ UNCHANGED <<call, jobs, remVars, initVars, hostVars>>

----------------------------------------------------------------------------
(* SpecDelete: the upsert and delete tools of todos with the reminder        *)
(* callbacks they start, each callback resuming at any later moment.         *)

MaxDeleteOps == 3

DeleteParams == {[NewTodo EXCEPT !.reminderMinutes = Val(30)]}

NextDelete ==
    \/ \E u \in Users, id \in OptionalIds(TodoIds), params \in DeleteParams :
           clock < MaxDeleteOps /\ UpsertTodoTool(u, id, params)
    \/ \E u \in Users, id \in TodoIds \cup {""} :
           clock < MaxDeleteOps /\ DeleteTodoTool(u, id)
    \/ \E c \in callbacks : ScheduleTodoSettings(c)
    \/ \E c \in callbacks : ScheduleTodoCancel(c)
    \/ \E c \in callbacks : ScheduleTodoSchedule(c)

SpecDelete == Init /\ [][NextDelete]_vars

----------------------------------------------------------------------------
(* db/workDb.ts: initialize() and the normalization it runs.                 *)

\* TRIM(x) of SQLite: the spaces at both ends removed
SqlTrim(x) == trim(x)

\* UPDATE <table> SET user_id = 'legacy' WHERE user_id IS NULL
MigrateUserId(tbl) ==
    [x \in DOMAIN tbl |->
        IF tbl[x].user_id = Null THEN [tbl[x] EXCEPT !.user_id = Val("legacy")]
        ELSE tbl[x]]

\* Status UPDATEs that rewrite 'canceled' to another legacy name
CanonicalStatus_Chained(status) ==
    IF status \in {"pending", "todo", "open"} THEN "not_started"
    ELSE IF status \in {"inprogress", "in-progress"} THEN "in_progress"
    ELSE IF status \in {"complete", "done"} THEN "completed"
    ELSE IF status = "canceled" THEN "done"
    ELSE status

\* The four UPDATEs of cleanupProjectReferences that rewrite the status
CanonicalStatus(status) ==
    IF status \in {"pending", "todo", "open"} THEN "not_started"
    ELSE IF status \in {"inprogress", "in-progress"} THEN "in_progress"
    ELSE IF status \in {"complete", "done"} THEN "completed"
    ELSE IF status = "canceled" THEN "cancelled"
    ELSE status

\* cleanupProjectReferences on the todos: blank project ids nulled, statuses
\* rewritten, project ids that name no project nulled
CleanupTodos(tTbl, pTbl) ==
    LET blank(r) == r.project_id.kind = "val" /\ SqlTrim(r.project_id.v) = ""
        t1 == [x \in DOMAIN tTbl |->
                  IF blank(tTbl[x]) THEN [tTbl[x] EXCEPT !.project_id = Null]
                  ELSE tTbl[x]]
        t2 == [x \in DOMAIN t1 |-> [t1[x] EXCEPT !.status = CanonicalStatus(@)]]
        dangling(r) == r.project_id.kind = "val" /\ r.project_id.v \notin DOMAIN pTbl
    IN [x \in DOMAIN t2 |->
           IF dangling(t2[x]) THEN [t2[x] EXCEPT !.project_id = Null] ELSE t2[x]]

\* cleanupProjectReferences on the group state: the rows of a group that is
\* neither the no-project group nor a project are deleted
CleanupGroupState(gTbl, pTbl) ==
    Remove(gTbl, {g \in DOMAIN gTbl : g # NO_PROJECT_GROUP /\ g \notin DOMAIN pTbl})

\* One initialize() call: `who` is the wrapper it is called on
InitializeStart(who) ==
    /\ IF initializedDatabases
       THEN UNCHANGED <<callbacks, setups>>
       ELSE /\ callbacks' = callbacks \cup
                    {[n |-> clock + 1, user |-> who, pc |-> "schema"]}
            /\ setups' = setups + 1
    /\ Tick
    /\ UNCHANGED <<dbVars, call, last, jobs, remVars, initializedDatabases, hostVars>>

\* CREATE TABLE IF NOT EXISTS ..., safeAddColumn(table, 'user_id', 'TEXT')
InitializeSchema(c) ==
    /\ c \in callbacks /\ c.pc = "schema"
    /\ callbacks' = (callbacks \ {c}) \cup {[c EXCEPT !.pc = "migrate"]}
    /\ UNCHANGED <<dbVars, ctlVars, jobs, remVars, initVars, hostVars>>

\* The rows without user_id given to 'legacy'
InitializeMigrate(c) ==
    /\ c \in callbacks /\ c.pc = "migrate"
    /\ projects' = MigrateUserId(projects)
    /\ todos' = MigrateUserId(todos)
    /\ subitems' = MigrateUserId(subitems)
    /\ comments' = MigrateUserId(comments)
    /\ groupState' = MigrateUserId(groupState)
    /\ callbacks' = (callbacks \ {c}) \cup {[c EXCEPT !.pc = "cleanup"]}
    /\ UNCHANGED <<settings, creator, ctlVars, jobs, remVars, initVars, hostVars>>

\* await cleanupProjectReferences(this.db)
InitializeCleanup(c) ==
    /\ c \in callbacks /\ c.pc = "cleanup"
    /\ todos' = CleanupTodos(todos, projects)
    /\ groupState' = CleanupGroupState(groupState, projects)
    /\ callbacks' = (callbacks \ {c}) \cup {[c EXCEPT !.pc = "add"]}
    /\ UNCHANGED <<projects, comments, subitems, settings, creator>>
    /\ UNCHANGED <<ctlVars, jobs, remVars, initVars, hostVars>>

\* WorkDb.initializedDatabases.add(this.db)
InitializeAdd(c) ==
    /\ c \in callbacks /\ c.pc = "add"
    /\ initializedDatabases' = TRUE
    /\ callbacks' = callbacks \ {c}
    /\ UNCHANGED <<dbVars, ctlVars, jobs, remVars, setups, hostVars>>

----------------------------------------------------------------------------
(* SpecInit: activation and the tool invocations of the users each calling   *)
(* initialize() on a wrapper of the one connection, over a database that is  *)
(* empty or holds rows written before the multi-user migration.              *)

\* A todo row as stored before the user_id column existed
LegacyTodo(id, projectId, status) ==
    [id |-> id, project_id |-> projectId, title |-> "T", description |-> Null,
     icon |-> "i", status |-> status, due_at |-> "2025-03-01T10:00:00Z",
     date |-> "2025-03-01", time |-> "10:00", all_day |-> 0,
     reminder_minutes |-> Null, created_at |-> 0, updated_at |-> 0,
     user_id |-> Null]

LegacyGroupState(groupId) ==
    [group_id |-> groupId, collapsed |-> 1, updated_at |-> 0, user_id |-> Null]

\* The wrappers initialize() is called on: the unscoped one of activate and
\* the withUser(u) ones of the tools
Wrappers == {"activate"} \cup Users

InitConnection ==
    /\ projects = <<>> /\ comments = <<>> /\ subitems = <<>>
    /\ todos \in {<<>>, "t1" :> LegacyTodo("t1", Val("p1"), "done")}
    /\ groupState \in {<<>>, "p1" :> LegacyGroupState("p1")}
    /\ settings = <<>> /\ creator = <<>>
    /\ clock = 0 /\ call = Idle /\ last = NoCall
    /\ SchedIdle /\ RemIdle /\ InitIdle /\ HostIdle

MaxInitCalls == 3

NextInit ==
    \/ \E who \in Wrappers : clock < MaxInitCalls /\ InitializeStart(who)
    \/ \E c \in callbacks : InitializeSchema(c)
    \/ \E c \in callbacks : InitializeMigrate(c)
    \/ \E c \in callbacks : InitializeCleanup(c)
    \/ \E c \in callbacks : InitializeAdd(c)

SpecInit == InitConnection /\ [][NextInit]_vars

----------------------------------------------------------------------------
(* SpecNormalize: initialize() run to its end, again and again, over a       *)
(* database holding any of the rows an earlier version may have left.        *)

RECURSIVE Includes(_, _)
\* String.prototype.includes
Includes(str, sub) ==
    IF Len(sub) > Len(str) THEN FALSE
    ELSE IF slice(str, 0, Len(sub)) = sub THEN TRUE
    ELSE Includes(slice(str, 1, Len(str)), sub)

\* What the engine answers to ALTER TABLE ... ADD COLUMN user_id
DuplicateColumnErrors ==
    {"duplicate column name: user_id",
     "column \"user_id\" of relation already exists"}

\* safeAddColumn: the ALTER TABLE either succeeds or throws msg; the error is
\* swallowed when it says the column is there already
safeAddColumn(hasColumn, msg) ==
    IF ~hasColumn THEN Ok(TRUE)
    ELSE IF ~Includes(msg, "duplicate column") /\ ~Includes(msg, "already exists")
    THEN Throw(msg)
    ELSE Ok(TRUE)

LegacyProject(id, userId) ==
    [id |-> id, name |-> "P", description |-> Null, created_at |-> 0,
     updated_at |-> 0, user_id |-> userId]

LegacyChild(id, todoId) ==
    [id |-> id, todo_id |-> todoId, text |-> "x", completed_at |-> Null,
     sort_order |-> 0, created_at |-> 0, updated_at |-> 0, user_id |-> Null]

LegacyStatuses ==
    {"pending", "todo", "open", "inprogress", "in-progress", "complete", "done",
     "canceled", "not_started", "cancelled"}

LegacyProjectIds == {Null, Val(""), Val("  "), Val("p1"), Val("p2")}

\* The rows of a table all carry a user: the migration has nothing left to do
Migrated(tbl) == \A x \in DOMAIN tbl : tbl[x].user_id # Null

InitNormalize ==
    /\ projects \in {<<>>} \cup {"p1" :> LegacyProject("p1", o) : o \in {Null, Val("A")}}
    /\ todos \in {<<>>} \cup
           {"t1" :> [LegacyTodo("t1", p, st) EXCEPT !.user_id = o] :
               p \in LegacyProjectIds, st \in LegacyStatuses, o \in {Null, Val("A")}}
    /\ comments \in {<<>>, "c1" :> LegacyChild("c1", "t1")}
    /\ subitems \in {<<>>, "s1" :> LegacyChild("s1", "t1")}
    /\ groupState \in
           {[g \in G |-> LegacyGroupState(g)] : G \in SUBSET {"p1", "p2", NO_PROJECT_GROUP}}
    /\ settings = <<>> /\ creator = <<>>
    /\ clock = 0 /\ call = Idle /\ last = NoCall
    /\ SchedIdle /\ RemIdle /\ InitIdle /\ HostIdle

\* initialize() from its guard to its end with no other call in between, in a
\* process that has not yet added the connection to initializedDatabases
RunInitialize(msg) ==
    /\ ~initializedDatabases
    /\ LET hasColumn == setups > 0
           added == safeAddColumn(hasColumn, msg)
       IN IF added.ok
          THEN /\ projects' = MigrateUserId(projects)
               /\ subitems' = MigrateUserId(subitems)
               /\ comments' = MigrateUserId(comments)
               /\ todos' = CleanupTodos(MigrateUserId(todos), projects')
               /\ groupState' = CleanupGroupState(MigrateUserId(groupState), projects')
               /\ last' = [op |-> "initialize", ok |-> TRUE]
          ELSE /\ UNCHANGED <<projects, todos, comments, subitems, groupState>>
               /\ last' = [op |-> "initialize", ok |-> FALSE, error |-> added.error]
    /\ setups' = setups + 1
    /\ Tick
    /\ UNCHANGED <<settings, creator, call, schedVars, remVars, initializedDatabases, hostVars>>

MaxNormalizeRuns == 2

NextNormalize ==
    \E msg \in DuplicateColumnErrors : clock < MaxNormalizeRuns /\ RunInitialize(msg)

SpecNormalize == InitNormalize /\ [][NextNormalize]_vars

----------------------------------------------------------------------------
(* SpecDerive: deriveDateTime applied to the arguments a caller may pass.    *)

DeriveDueAts == {Undefined, Val("2025-02-10T09:00:00+01:00"), Val("2025-02-10")}
DeriveDates == {Undefined, Null, Val(""), Val("  "), Val("2025-03-01"), Val(" 2025-03-01 ")}
DeriveTimes == {Undefined, Val(" "), Val("14:30"), Val("14:30 ")}
DeriveAllDays == {Undefined, Val(TRUE), Val(FALSE)}

DeriveDateTime(dueAt, date, time, allDay) ==
    /\ CanStart
    /\ last' = [op |-> "deriveDateTime", dueAt |-> dueAt, date |-> date, time |-> time,
                allDay |-> allDay, ret |-> deriveDateTime(dueAt, date, time, allDay)]
    /\ Tick
    /\ UNCHANGED <<dbVars, call, schedVars, remVars, initVars, hostVars>>

MaxDeriveCalls == 1

NextDerive ==
    \E dueAt \in DeriveDueAts, date \in DeriveDates, time \in DeriveTimes,
       allDay \in DeriveAllDays :
        clock < MaxDeriveCalls /\ DeriveDateTime(dueAt, date, time, allDay)

SpecDerive == Init /\ [][NextDerive]_vars

----------------------------------------------------------------------------
(* SpecToggle: sub-items added, toggled and deleted through the facades of   *)
(* the users.                                                                *)

MaxToggleOps == 4

NextToggle ==
    \/ \E u \in Users, input \in ChildInputs : clock < MaxToggleOps /\ AddSubItem(u, input)
    \/ \E u \in Users, t \in TodoIds, x \in SubItemIds :
           clock < MaxToggleOps /\ ToggleSubItem(u, t, x)
    \/ \E u \in Users, t \in TodoIds, x \in SubItemIds :
           clock < MaxToggleOps /\ DeleteSubItem(u, t, x)

SpecToggle == Init /\ [][NextToggle]_vars

----------------------------------------------------------------------------
(* The tools with what surrounds the repository call: the user of the        *)
(* execution context, the query executor, which may throw, and the events    *)
(* API behind emitEvent, which may be absent, resolve, reject or throw.      *)

\* The ToolResult envelopes
ToolSuccess(data) == [success |-> TRUE, data |-> data]
ToolFailure(msg) == [success |-> FALSE, error |-> msg]

\* execContext.userId: a user, or none
ToolUsers == Users \cup {""}

EmitOutcomes == {"absent", "resolves", "rejects", "throws"}
ExecutorOutcomes == {"ok", "throws"}

\* emitEvent(name): without try/catch, so only a synchronous throw of
\* eventsApi.emit leaves it by an exception; `void` drops the promise
emitEvent(emit) == IF emit = "throws" THEN Throw("emit failed") ELSE Ok(TRUE)

\* work_todos_upsert: execute of createUpsertTodoTool with the onChange callback
\* registered by activate (emitTodoRefresh, then void scheduleTodo(todo, userId))
UpsertTodoToolWith(u, id, params, emit, executor) ==
    /\ CanStart
    /\ normalizeOptionalString(id).kind # "val" => FreshIds(TodoIds, todos) # {}
    /\ LET normalized ==
               [params EXCEPT
                   !.projectId = normalizeProjectId(params.projectId),
                   !.reminderMinutes = normalizeReminderMinutes(params.reminderMinutes)]
           r == TodosUpsert(todos, comments, subitems, withUser(u), id, normalized,
                            Fresh(TodoIds, todos), clock + 1)
           emitted == emitEvent(emit)
       IN IF executor = "throws"
          THEN /\ UNCHANGED <<todos, creator, callbacks>>
               /\ last' = [op |-> "work_todos_upsert", user |-> u, executor |-> executor,
                           emit |-> emit, rejected |-> FALSE, persisted |-> FALSE,
                           notified |-> FALSE, data |-> Undefined,
                           result |-> ToolFailure("database error"),
                           after |-> <<todos, subitems>>]
          ELSE /\ todos' = r.todos
               /\ creator' = Credit(creator, todos, r.todos, u)
               /\ callbacks' = IF r.ret.ok /\ emitted.ok
                               THEN callbacks \cup
                                        {scheduleTodoStart(r.ret.value, u, clock + 1)}
                               ELSE callbacks
               /\ last' = [op |-> "work_todos_upsert", user |-> u, executor |-> executor,
                           emit |-> emit, rejected |-> ~r.ret.ok,
                           persisted |-> r.ret.ok, notified |-> r.ret.ok,
                           data |-> IF r.ret.ok THEN Val(r.ret.value) ELSE Undefined,
                           result |-> IF ~r.ret.ok THEN ToolFailure(r.ret.error)
                                      ELSE IF ~emitted.ok THEN ToolFailure(emitted.error)
                                      ELSE ToolSuccess(Val(r.ret.value)),
                           after |-> <<r.todos, subitems>>]
    /\ Tick
    /\ UNCHANGED <<projects, comments, subitems, groupState, settings, call>>
    /\ UNCHANGED <<jobs, remVars, initVars, hostVars>>

\* work_subitems_delete: execute of createDeleteSubItemTool with the onChange
\* callback registered by activate (emitTodoRefresh)
DeleteSubItemTool(u, todoId, subItemId, emit, executor) ==
    /\ CanStart
    /\ LET r == SubItemsDelete(subitems, withUser(u), todoId, subItemId)
           emitted == emitEvent(emit)
           failed(msg, rejected) ==
               /\ UNCHANGED <<subitems, creator>>
               /\ last' = [op |-> "work_subitems_delete", user |-> u,
                           executor |-> executor, emit |-> emit, rejected |-> rejected,
                           persisted |-> FALSE, notified |-> FALSE, data |-> Undefined,
                           result |-> ToolFailure(msg), after |-> <<todos, subitems>>]
       IN IF u = "" THEN failed("User context required", FALSE)
          ELSE IF todoId = "" \/ subItemId = ""
          THEN failed("todoId and subItemId are required", TRUE)
          ELSE IF executor = "throws" THEN failed("database error", FALSE)
          ELSE IF ~r.ret THEN failed("Subitem not found", TRUE)
          ELSE /\ subitems' = r.subitems
               /\ creator' = Credit(creator, subitems, r.subitems, u)
               /\ last' = [op |-> "work_subitems_delete", user |-> u,
                           executor |-> executor, emit |-> emit, rejected |-> FALSE,
                           persisted |-> TRUE, notified |-> TRUE, data |-> Undefined,
                           result |-> IF ~emitted.ok THEN ToolFailure(emitted.error)
                                      ELSE ToolSuccess(Undefined),
                           after |-> <<todos, r.subitems>>]
    /\ Tick
    /\ UNCHANGED <<projects, todos, comments, groupState, settings, call>>
    /\ UNCHANGED <<schedVars, remVars, initVars, hostVars>>

\* scheduleTodo or cancelTodo leaving by its catch: the settings lookup,
\* scheduler.schedule or scheduler.cancel it awaited has thrown
ScheduleTodoFails(c) ==
    /\ c \in callbacks /\ c.pc \in {"settings", "cancel", "schedule"}
    /\ callbacks' = callbacks \ {c}
    /\ UNCHANGED <<dbVars, ctlVars, jobs, remVars, initVars, hostVars>>

----------------------------------------------------------------------------
(* SpecTools: the tools called by a user or with no user, the executor and   *)
(* the side channels failing or not.                                         *)

MaxToolOps == 2

ToolParams ==
    {[NewTodo EXCEPT !.reminderMinutes = Val(30)],
     [EmptyTodoInput EXCEPT !.status = Val("completed")]}

NextTools ==
    \/ \E u \in ToolUsers, id \in OptionalIds({"t1"}), params \in ToolParams,
          emit \in EmitOutcomes, executor \in ExecutorOutcomes :
           clock < MaxToolOps /\ UpsertTodoToolWith(u, id, params, emit, executor)
    \/ \E u \in Users, input \in ChildInputs : clock < MaxToolOps /\ AddSubItem(u, input)
    \/ \E u \in ToolUsers, t \in {"t1", ""}, x \in {"s1"},
          emit \in EmitOutcomes, executor \in ExecutorOutcomes :
           clock < MaxToolOps /\ DeleteSubItemTool(u, t, x, emit, executor)
    \/ \E c \in callbacks : ScheduleTodoSettings(c)
    \/ \E c \in callbacks : ScheduleTodoCancel(c)
    \/ \E c \in callbacks : ScheduleTodoSchedule(c)
    \/ \E c \in callbacks : ScheduleTodoFails(c)

SpecTools == Init /\ [][NextTools]_vars

----------------------------------------------------------------------------
(* reminders.ts: the instruction message, and the onFire handler of activate *)

UpperChars == "ABCDEFGHIJKLMNOPQRSTUVWXYZ"
LowerChars == "abcdefghijklmnopqrstuvwxyz"

RECURSIVE toLowerCase(_)
\* String.prototype.toLowerCase for ASCII letters
toLowerCase(str) ==
    IF str = "" THEN ""
    ELSE LET c == charAt(str, 0)
             lower == IF \E i \in 0..25 : charAt(UpperChars, i) = c
                      THEN charAt(LowerChars, CHOOSE i \in 0..25 : charAt(UpperChars, i) = c)
                      ELSE c
         IN lower \o toLowerCase(slice(str, 1, Len(str)))

startsWith(str, prefix) == slice(str, 0, Len(prefix)) = prefix

\* resolveLocale; envLocale is process.env.LANG || LC_ALL || LC_MESSAGES
resolveLocale(s, userLanguage, envLocale) ==
    LET stored == IF s.reminderLocale.kind = "val"
                  THEN toLowerCase(s.reminderLocale.v) ELSE ""
        userLocale == IF userLanguage.kind = "val" THEN toLowerCase(userLanguage.v) ELSE ""
        env == IF envLocale.kind = "val" THEN toLowerCase(envLocale.v) ELSE ""
    IN IF stored # "" /\ stored # "auto" /\ startsWith(stored, "sv") THEN "sv"
       ELSE IF stored # "" /\ stored # "auto" /\ startsWith(stored, "en") THEN "en"
       ELSE IF userLocale # "" /\ startsWith(userLocale, "sv") THEN "sv"
       ELSE IF userLocale # "" /\ startsWith(userLocale, "en") THEN "en"
       ELSE IF env # "" /\ startsWith(env, "sv") THEN "sv"
       ELSE "en"

\* Math.round(x / 60000) for an integer x: the nearest integer, halves upwards
RoundMinutes(delayMs) == (2 * delayMs + 60000) \div 120000

formatDelayMinutes(delayMs) ==
    IF delayMs <= 0 THEN Null
    ELSE IF RoundMinutes(delayMs) <= 0 THEN Null
    ELSE Val(NumToStr(RoundMinutes(delayMs)))

\* buildInstructionMessage: the lines that are joined, each with its text or
\* with the values its template is filled with; the null line is filtered out
\* (the Swedish letters are written without their diacritics)
buildInstructionMessage(todo, firePayload, s, context, envLocale) ==
    LET locale == resolveLocale(s, context.userLanguage, envLocale)
        delayMinutes == formatDelayMinutes(firePayload.delayMs)
        name == IF context.userName.kind = "val" THEN trim(context.userName.v) ELSE ""
        header == IF locale = "sv"
                  THEN "[Automatiskt meddelande ang. TODO-paminnelse]"
                  ELSE "[Automatic TODO reminder]"
        tell == [line |-> "tell", locale |-> locale, id |-> todo.id,
                 name |-> IF name # "" THEN name
                          ELSE IF locale = "sv" THEN "anvandaren" ELSE "the user",
                 title |-> todo.title]
        delay == [line |-> "delay", locale |-> locale, minutes |-> delayMinutes.v,
                  scheduledFor |-> firePayload.scheduledFor,
                  firedAt |-> firePayload.firedAt]
        data == [line |-> "data", locale |-> locale, todo |-> todo]
    IN <<[line |-> "header", text |-> header], tell>>
           \o (IF Truthy(delayMinutes) THEN <<delay>> ELSE <<>>)
           \o <<data>>

\* The payload of a fired job: the fields the handler reads
FirePayload(userId, todoId, delayMs) ==
    [payload |-> [userId |-> userId, todoId |-> todoId],
     scheduledFor |-> "2025-03-01T09:30:00.000Z", firedAt |-> "2025-03-01T09:30:00.000Z",
     delayMs |-> delayMs]

\* The callback given to scheduler.onFire, to its end. todoId is a string, is
\* absent, or is a value of another type; failure names the awaited call that
\* throws, if one does; profile is what resolveUserProfile returns
OnFire(firePayload, currentUserId, hasChat, failure, profile) ==
    /\ CanStart
    /\ LET payloadUserId == firePayload.payload.userId
           todoId == firePayload.payload.todoId
           accepted ==
               /\ hasChat
               /\ Truthy(currentUserId) /\ payloadUserId = currentUserId
               /\ todoId.kind = "val" /\ todoId.v # ""
           todo == getTodo(currentUserId.v, todoId.v)
           reached == accepted /\ failure # "executor"
                          /\ todo.kind = "val" /\ isTodoActive(todo.v)
           message == buildInstructionMessage(todo.v, firePayload,
                                              getSettings(currentUserId.v), profile,
                                              Undefined)
           sent == reached /\ failure # "chat"
       IN /\ chat' = IF sent
                     THEN Append(chat, [text |-> message, userId |-> currentUserId.v])
                     ELSE chat
          /\ last' = [op |-> "onFire", payload |-> firePayload.payload,
                      currentUserId |-> currentUserId, hasChat |-> hasChat,
                      failure |-> failure, sent |-> sent,
                      logged |-> (accepted /\ failure = "executor")
                                     \/ (reached /\ failure = "chat"),
                      thrown |-> FALSE]
    /\ Tick
    /\ UNCHANGED <<dbVars, call, schedVars, remVars, initVars, registrations, activation>>

----------------------------------------------------------------------------
(* SpecFire: todos upserted by the users, and reminder jobs firing with any  *)
(* payload under any execution context.                                      *)

MaxFireOps == 2

FireUserIds == {Undefined} \cup {Val(u) : u \in Users}
FireTodoIds == {Undefined, [kind |-> "number"], Val("t1")}
FireProfiles ==
    {[userName |-> Undefined, userLanguage |-> Undefined],
     [userName |-> Val("Ann"), userLanguage |-> Val("sv-SE")]}

NextFire ==
    \/ \E u \in Users, id \in OptionalIds(TodoIds), input \in TodoInputs :
           clock < MaxFireOps /\ UpsertTodo(u, id, input)
    \/ \E p \in FireUserIds, t \in FireTodoIds, c \in FireUserIds, hasChat \in BOOLEAN,
          failure \in {"none", "executor", "chat"}, profile \in FireProfiles :
           clock < MaxFireOps
               /\ OnFire(FirePayload(p, t, 0), c, hasChat, failure, profile)

SpecFire == Init /\ [][NextFire]_vars

----------------------------------------------------------------------------
(* SpecScheduleAll: scheduleAllTodosForUser over todos the users created.    *)
(* The run is the call in progress, so no todo changes while it runs; the    *)
(* scheduleTodo it awaits is a callback, and the loop resumes when that      *)
(* callback has finished.                                                    *)

pageSize == 200

StartScheduleAll(userId) ==
    /\ CanStart
    /\ callbacks = {}
    /\ call' = [pc |-> "list", op |-> "scheduleAllTodosForUser", user |-> userId,
                offset |-> 0, todos |-> <<>>, length |-> 0, invoked |-> <<>>, pages |-> 0]
    /\ Tick
    /\ UNCHANGED <<dbVars, last, schedVars, remVars, initVars, hostVars>>

\* The run is over: break
ScheduleAllDone(c) ==
    /\ call' = Idle
    /\ last' = [op |-> "scheduleAllTodosForUser", user |-> c.user, invoked |-> c.invoked,
                pages |-> c.pages, length |-> c.length, before |-> todos]

\* const todos = await userRepo.listTodos({ limit: pageSize, offset })
ScheduleAllList ==
    /\ call.pc = "list"
    /\ LET page == TodosListPage(todos, withUser(call.user), pageSize, call.offset)
           c == [call EXCEPT !.pc = "each", !.todos = page, !.length = Len(page),
                             !.pages = @ + 1]
       IN IF Len(page) = 0 THEN ScheduleAllDone(c)
          ELSE call' = c /\ UNCHANGED last
    /\ UNCHANGED <<dbVars, clock, schedVars, remVars, initVars, hostVars>>

\* await scheduleTodo(todo, userId), for the next todo of the page
ScheduleAllEach ==
    /\ call.pc = "each" /\ call.todos # <<>>
    /\ callbacks = {}
    /\ callbacks' = {scheduleTodoStart(Head(call.todos), call.user, Len(call.invoked) + 1)}
    /\ call' = [call EXCEPT !.todos = Tail(@), !.invoked = Append(@, Head(call.todos).id)]
    /\ UNCHANGED <<dbVars, clock, last, jobs, remVars, initVars, hostVars>>

\* if (todos.length < pageSize) break; offset += pageSize
ScheduleAllPage ==
    /\ call.pc = "each" /\ call.todos = <<>>
    /\ callbacks = {}
    /\ IF call.length < pageSize THEN ScheduleAllDone(call)
       ELSE /\ call' = [call EXCEPT !.pc = "list", !.offset = @ + pageSize]
            /\ UNCHANGED last
    /\ UNCHANGED <<dbVars, clock, schedVars, remVars, initVars, hostVars>>

MaxScheduleAllOps == 3

ScheduleAllInputs ==
    {[NewTodo EXCEPT !.reminderMinutes = Val(30)],
     [NewTodo EXCEPT !.dueAt = Val("2025-02-01T09:00:00Z")],
     [EmptyTodoInput EXCEPT !.status = Val("completed")]}

NextScheduleAll ==
    \/ \E u \in Users, id \in OptionalIds(TodoIds), input \in ScheduleAllInputs :
           clock < MaxScheduleAllOps /\ UpsertTodo(u, id, input)
    \/ \E u \in Users : clock < MaxScheduleAllOps /\ StartScheduleAll(u)
    \/ ScheduleAllList
    \/ ScheduleAllEach
    \/ ScheduleAllPage
    \/ \E c \in callbacks : ScheduleTodoSettings(c)
    \/ \E c \in callbacks : ScheduleTodoCancel(c)
    \/ \E c \in callbacks : ScheduleTodoSchedule(c)

SpecScheduleAll == Init /\ [][NextScheduleAll]_vars

----------------------------------------------------------------------------
(* SpecRace: toggleSubItem calls that overlap.  A call is suspended at each  *)
(* await, so the SELECT of one call and its UPDATE are two steps and the      *)
(* statements of other calls run in between.  A call stays in callbacks, as   *)
(* "done", once its promise has settled.                                      *)

ToggleSelect(u, todoId, subItemId) ==
    /\ CanStart
    /\ LET completed_at == SubItemsToggleSelect(subitems, withUser(u), todoId, subItemId)
           c == [id |-> clock + 1, userId |-> u, todoId |-> todoId,
                 subItemId |-> subItemId, completed_at |-> completed_at]
       IN IF completed_at = Undefined
          THEN /\ callbacks' = callbacks \cup {c @@ [pc |-> "done", ret |-> FALSE]}
               /\ last' = [op |-> "toggleSubItem", user |-> u, id |-> subItemId,
                           todoId |-> todoId, ok |-> FALSE, was |-> Undefined]
          ELSE /\ callbacks' = callbacks \cup {c @@ [pc |-> "update", ret |-> FALSE]}
               /\ last' = [op |-> "toggleSubItem.select", user |-> u, id |-> subItemId,
                           todoId |-> todoId]
    /\ Tick
    /\ UNCHANGED <<dbVars, call, jobs, remVars, initVars, hostVars>>

ToggleUpdate(c) ==
    /\ CanStart
    /\ c \in callbacks /\ c.pc = "update"
    /\ subitems' = SubItemsToggleUpdate(subitems, withUser(c.userId), c.todoId, c.subItemId,
                                        c.completed_at, clock + 1)
    /\ callbacks' = (callbacks \ {c}) \cup {[c EXCEPT !.pc = "done", !.ret = TRUE]}
    /\ last' = [op |-> "toggleSubItem", user |-> c.userId, id |-> c.subItemId,
                todoId |-> c.todoId, ok |-> TRUE, was |-> c.completed_at]
    /\ Tick
    /\ UNCHANGED <<projects, todos, comments, groupState, settings, creator, call>>
    /\ UNCHANGED <<jobs, remVars, initVars, hostVars>>

MaxRaceOps == 5

NextRace ==
    \/ \E u \in Users, input \in ChildInputs : clock < MaxRaceOps /\ AddSubItem(u, input)
    \/ \E u \in Users, t \in TodoIds, x \in SubItemIds :
           clock < MaxRaceOps /\ ToggleSelect(u, t, x)
    \/ \E c \in callbacks : clock < MaxRaceOps /\ ToggleUpdate(c)

SpecRace == Init /\ [][NextRace]_vars

----------------------------------------------------------------------------
(* SpecMessage: buildInstructionMessage applied to fire payloads of every    *)
(* delay around the minute, under the locales and names it tells apart.      *)

MessageDelays == {0 - 60000, 0, 1, 29999, 30000, 59999, 60000, 89999, 90000, 120000}
MessageLocales == {Null, Val("sv"), Val("EN-us"), Val("auto")}
MessageContexts ==
    [userName : {Undefined, Val(" Ann ")}, userLanguage : {Undefined, Val("sv-SE")}]

BuildInstructionMessage(delayMs, reminderLocale, context) ==
    /\ CanStart
    /\ last' = [op |-> "buildInstructionMessage", delayMs |-> delayMs,
                reminderLocale |-> reminderLocale, context |-> context,
                message |-> buildInstructionMessage(
                    [id |-> "t1", title |-> "Report"], FirePayload(Val("A"), Val("t1"), delayMs),
                    [DEFAULT_SETTINGS EXCEPT !.reminderLocale = reminderLocale],
                    context, Undefined)]
    /\ Tick
    /\ UNCHANGED <<dbVars, call, schedVars, remVars, initVars, hostVars>>

MaxMessageCalls == 1

NextMessage ==
    \E delayMs \in MessageDelays, reminderLocale \in MessageLocales,
       context \in MessageContexts :
        clock < MaxMessageCalls /\ BuildInstructionMessage(delayMs, reminderLocale, context)

SpecMessage == Init /\ [][NextMessage]_vars

----------------------------------------------------------------------------
(* SpecActivate: activate on a host that offers or lacks the database, the   *)
(* actions API and the scheduler, and the dispose() of what it returned.     *)

ActionSeq == <<"getGroups", "getSettings", "updateSetting">>

ToolSeq ==
    <<"work_projects_list", "work_projects_get", "work_projects_upsert",
      "work_projects_delete", "work_todos_list", "work_todos_get",
      "work_todos_upsert", "work_todos_delete", "work_comments_add",
      "work_comments_delete", "work_subitems_add", "work_subitems_delete",
      "work_settings_list", "work_settings_get", "work_settings_update">>

ON_FIRE == "scheduler.onFire"

Range(seq) == {seq[i] : i \in DOMAIN seq}

\* What activate registers with the host: scheduler?.onFire, actionsApi.register
\* and context.tools.register
Registered(hasActions, hasScheduler) ==
    (IF hasScheduler THEN {ON_FIRE} ELSE {})
        \cup (IF hasActions THEN Range(ActionSeq) ELSE {}) \cup Range(ToolSeq)

\* A disposables array without the scheduler subscription
Disposables_ToolsAndActions(hasActions, hasScheduler) ==
    (IF hasActions THEN ActionSeq ELSE <<>>) \o ToolSeq

\* The disposables array: the action disposables, the tool registrations and
\* the scheduler disposable when there is one
Disposables(hasActions, hasScheduler) ==
    (IF hasActions THEN ActionSeq ELSE <<>>) \o ToolSeq
        \o (IF hasScheduler THEN <<ON_FIRE>> ELSE <<>>)

\* activate(context): nothing is registered without the database
Activate(hasDatabase, hasActions, hasScheduler) ==
    /\ activation \in {"none", "deactivated"}
    /\ registrations' = IF hasDatabase
                        THEN [r \in Registered(hasActions, hasScheduler) |-> FALSE]
                        ELSE <<>>
    /\ activation' = "active"
    /\ last' = [op |-> "activate", hasDatabase |-> hasDatabase,
                hasActions |-> hasActions, hasScheduler |-> hasScheduler]
    /\ Tick
    /\ UNCHANGED <<dbVars, call, schedVars, remVars, initVars, chat>>

\* dispose() of the disposable activate returned: the loop calls dispose() on
\* each element in order; the call on element `thrower` throws and ends the
\* loop, thrower = 0 when no call throws
Deactivate(thrower) ==
    /\ activation = "active"
    /\ LET disposables == IF last.hasDatabase
                          THEN Disposables(last.hasActions, last.hasScheduler)
                          ELSE <<>>
           reached == IF thrower = 0 THEN Len(disposables) ELSE thrower
       IN /\ thrower <= Len(disposables)
          /\ registrations' =
                 [r \in DOMAIN registrations |->
                     registrations[r] \/ \E i \in 1..reached : disposables[i] = r]
    /\ activation' = IF thrower = 0 THEN "deactivated" ELSE "dispose threw"
    /\ UNCHANGED <<dbVars, ctlVars, schedVars, remVars, initVars, chat>>

MaxActivations == 2

NextActivate ==
    \/ \E hasDatabase \in BOOLEAN, hasActions \in BOOLEAN, hasScheduler \in BOOLEAN :
           clock < MaxActivations /\ Activate(hasDatabase, hasActions, hasScheduler)
    \/ \E thrower \in 0..(Len(ActionSeq) + Len(ToolSeq) + 1) : Deactivate(thrower)

SpecActivate == Init /\ [][NextActivate]_vars

----------------------------------------------------------------------------
(* SpecJobs: scheduleTodo and cancelTodo started for pairs of a user id and  *)
(* a todo id, the ids being arbitrary strings of the host and of the caller. *)

JobUsers == {"A", "A:t"}
JobTodoIds == {"1", "t:1"}

JobTodo(todoId) ==
    [id |-> todoId, status |-> "not_started", dueAt |-> "2025-03-01T10:00:00Z",
     allDay |-> FALSE, reminderMinutes |-> Val(30)]

StartScheduleTodo(todoId, userId) ==
    /\ callbacks' = callbacks \cup {scheduleTodoStart(JobTodo(todoId), userId, clock + 1)}
    /\ Tick
    /\ UNCHANGED <<dbVars, call, last, jobs, remVars, initVars, hostVars>>

StartCancelTodo(todoId, userId) ==
    /\ callbacks' = callbacks \cup {cancelTodoStart(todoId, userId, clock + 1)}
    /\ Tick
    /\ UNCHANGED <<dbVars, call, last, jobs, remVars, initVars, hostVars>>

MaxJobStarts == 3

NextJobs ==
    \/ \E t \in JobTodoIds, u \in JobUsers :
           clock < MaxJobStarts /\ StartScheduleTodo(t, u)
    \/ \E t \in JobTodoIds, u \in JobUsers :
           clock < MaxJobStarts /\ StartCancelTodo(t, u)
    \/ \E c \in callbacks : ScheduleTodoSettings(c)
    \/ \E c \in callbacks : ScheduleTodoCancel(c)
    \/ \E c \in callbacks : ScheduleTodoSchedule(c)

SpecJobs == Init /\ [][NextJobs]_vars

----------------------------------------------------------------------------
(* SpecSched: upserts through the tool and the callbacks they start.         *)

MaxSchedOps == 3

SchedParams ==
    {[NewTodo EXCEPT !.reminderMinutes = Val(30)],
     [NewTodo EXCEPT !.allDay = Val(TRUE)],
     [EmptyTodoInput EXCEPT !.status = Val("completed")],
     [EmptyTodoInput EXCEPT !.status = Val("in_progress")]}

NextSched ==
    \/ \E u \in Users, id \in OptionalIds(TodoIds), params \in SchedParams :
           clock < MaxSchedOps /\ UpsertTodoTool(u, id, params)
    \/ \E c \in callbacks : ScheduleTodoSettings(c)
    \/ \E c \in callbacks : ScheduleTodoCancel(c)
    \/ \E c \in callbacks : ScheduleTodoSchedule(c)

SpecSched == Init /\ [][NextSched]_vars

----------------------------------------------------------------------------
(* SpecTodo: one user creates todos and patches them field by field.         *)

MaxTodoOps == 3

Detailed ==
    [NewTodo EXCEPT !.description = Val("monthly"), !.projectId = Val("p1"),
                    !.reminderMinutes = Val(30)]

TodoCreates ==
    {NewTodo, Detailed,
     [NewTodo EXCEPT !.allDay = Val(TRUE)],
     [NewTodo EXCEPT !.date = Val(" 2025-04-01 "), !.time = Val("08:15")],
     [NewTodo EXCEPT !.dueAt = Val("2025-03-01")],
     [Detailed EXCEPT !.reminderMinutes = Null, !.status = Val("in_progress")]}

TodoPatches ==
    {[EmptyTodoInput EXCEPT !.status = Val("completed")],
     [EmptyTodoInput EXCEPT !.title = Val("Audit")],
     [EmptyTodoInput EXCEPT !.description = Val("weekly")],
     [EmptyTodoInput EXCEPT !.projectId = Null],
     [EmptyTodoInput EXCEPT !.dueAt = Val("2025-06-15T18:45:00+02:00")],
     [EmptyTodoInput EXCEPT !.allDay = Val(TRUE)],
     [EmptyTodoInput EXCEPT !.allDay = Val(FALSE)],
     [EmptyTodoInput EXCEPT !.date = Val("2025-07-01"), !.time = Val("07:00")],
     [EmptyTodoInput EXCEPT !.time = Val("23:59")],
     [EmptyTodoInput EXCEPT !.reminderMinutes = Null],
     [EmptyTodoInput EXCEPT !.reminderMinutes = Val(10)]}

NextTodo ==
    \/ \E input \in TodoCreates : clock < MaxTodoOps /\ UpsertTodo("A", Undefined, input)
    \/ \E id \in TodoIds, input \in TodoPatches :
           clock < MaxTodoOps /\ UpsertTodo("A", Val(id), input)

SpecTodo == Init /\ [][NextTodo]_vars

----------------------------------------------------------------------------
(* The reminder resolver applied to one todo and one settings record.        *)

Pending == [kind |-> "pending"]

ReminderDueAts ==
    {"2025-03-01T10:00:00Z", "2025-02-10T09:00:00+01:00", "2024-03-01T00:10:00Z",
     "2025-01-01T00:00:00.500-02:30", "2025-03-01", "2025-03-01T10:00",
     "", "tomorrow", "2025-13-01T10:00:00Z"}

ReminderMinuteValues == {0, 30, 1440}

ReminderTodos ==
    [dueAt : ReminderDueAts, allDay : BOOLEAN,
     reminderMinutes : {Undefined, Null} \cup {Val(m) : m \in ReminderMinuteValues}]

AllDayTimes ==
    {"", "  ", "09:00", "09:00:30", " 08:30 ", "9:00", "09:0", "ab:cd",
     "09:00:00Z", "0900", "morning"}

ReminderSettings ==
    [defaultReminderMinutes : {Null, Val(30), Val(15)},
     allDayReminderTime : {Null} \cup {Val(t) : t \in AllDayTimes}]

TzOffsets == {0, 60}

DbIdle ==
    /\ projects = <<>> /\ todos = <<>> /\ comments = <<>> /\ subitems = <<>>
    /\ groupState = <<>> /\ settings = <<>> /\ creator = <<>>
    /\ clock = 0 /\ call = Idle /\ last = NoCall
    /\ SchedIdle

InitReminder ==
    /\ rTodo \in ReminderTodos
    /\ rSettings \in ReminderSettings
    /\ tz \in TzOffsets
    /\ rResult = Pending
    /\ DbIdle /\ InitIdle /\ HostIdle

Resolve ==
    /\ rResult = Pending
    /\ rResult' = resolveReminderAt(rTodo, rSettings, tz)
    /\ UNCHANGED <<rTodo, rSettings, tz>>
    /\ UNCHANGED <<dbVars, ctlVars, schedVars, initVars, hostVars>>

NextReminder == Resolve

SpecReminder == InitReminder /\ [][NextReminder]_vars

Resolved == rResult # Pending

----------------------------------------------------------------------------
(* Properties of the facade under Spec and SpecCascade                       *)

\* Every row of the four entity tables, by id (the id pools are disjoint)
Rows == todos @@ projects @@ comments @@ subitems

\* The user whose handler took the last step
Actor == IF call # Idle THEN call.user ELSE last.user

ItemIds(group) == {i.id : i \in group.items}

(* C1: every read through the facade bound to a user returns only records    *)
(* that user created: listTodos, getTodo, listProjects, getProject,          *)
(* listComments, listSubItems and the items of listPanelGroups.              *)
C1_ReadsOnlyOwnRecords ==
    \A u \in Users :
        /\ \A t \in listTodos(u) : creator[t.id] = u
        /\ \A id \in TodoIds : getTodo(u, id).kind = "val" => creator[id] = u
        /\ \A q \in listProjects(u) : creator[q.id] = u
        /\ \A id \in ProjectIds : getProject(u, id).kind = "val" => creator[id] = u
        /\ \A id \in TodoIds :
              /\ \A c \in listComments(u, id) : creator[c.id] = u
              /\ \A x \in listSubItems(u, id) : creator[x.id] = u
        /\ \A g \in DOMAIN listPanelGroups(u) :
              \A i \in ItemIds(listPanelGroups(u)[g]) : creator[i] = u

(* C2: no step of a mutator run for one user changes or deletes a row that   *)
(* another user created, whatever ids the call was given.                    *)
C2_MutatorsKeepOthersRows ==
    [][\A x \in DOMAIN creator :
           creator[x] # Actor' => (x \in DOMAIN Rows' /\ Rows'[x] = Rows[x])]_vars

(* C4: a deleteProject(P) that returned true removed the project, deleted no *)
(* todo, set projectId to null on exactly that user's todos that had P and   *)
(* left every other todo as it was; listPanelGroups then shows the detached  *)
(* todos in the 'No Project' group.                                          *)
C4_DeleteProjectDetaches ==
    (call = Idle /\ last.op = "deleteProject" /\ last.ok) =>
        /\ getProject(last.user, last.id) = Null
        /\ DOMAIN todos = DOMAIN last.before
        /\ \A t \in DOMAIN todos :
              IF creator[t] = last.user /\ last.before[t].project_id = Val(last.id)
              THEN /\ todos[t] = [last.before[t] EXCEPT !.project_id = Null]
                   /\ t \in ItemIds(listPanelGroups(last.user)[NO_PROJECT_GROUP])
              ELSE todos[t] = last.before[t]

ChildrenOf(tbl, id) == {x \in DOMAIN tbl : tbl[x].todo_id = id}

\* The statements of deleteTodo run in the order comments, sub-items, todo
CascadeOrder ==
    /\ call # Idle => call.id \in DOMAIN todos
    /\ (call # Idle /\ call.pc \in {"subitems", "todo"}) =>
           ChildrenOf(comments, call.id) = {}
    /\ (call # Idle /\ call.pc = "todo") => ChildrenOf(subitems, call.id) = {}

\* What a completed deleteTodo leaves
CascadeDone ==
    (call = Idle /\ last.op = "deleteTodo" /\ last.ok) =>
        /\ last.id \notin DOMAIN todos
        /\ \A u \in Users : getTodo(u, last.id) = Null
        /\ \A u \in Users : listComments(u, last.id) = {}
        /\ \A u \in Users : listSubItems(u, last.id) = {}
        /\ ChildrenOf(comments, last.id) = {} /\ ChildrenOf(subitems, last.id) = {}

\* What each step of deleteTodo changes
CascadeStep ==
    /\ (call = Idle /\ clock' # clock /\ last'.op = "deleteTodo" /\ call' = Idle) =>
           /\ ~last'.ok
           /\ last'.id \notin DOMAIN todos
           /\ dbVars' = dbVars
    /\ (call = Idle /\ call' # Idle) =>
           /\ call'.id \in DOMAIN todos
           /\ dbVars' = dbVars
    /\ (call # Idle /\ call.pc = "comments") =>
           /\ comments' = Remove(comments, ChildrenOf(comments, call.id))
           /\ todos' = todos /\ subitems' = subitems /\ projects' = projects
    /\ (call # Idle /\ call.pc = "subitems") =>
           /\ subitems' = Remove(subitems, ChildrenOf(subitems, call.id))
           /\ todos' = todos /\ comments' = comments /\ projects' = projects
    /\ (call # Idle /\ call.pc = "todo") =>
           /\ todos' = Remove(todos, {call.id})
           /\ subitems' = subitems /\ comments' = comments /\ projects' = projects
           /\ last'.op = "deleteTodo" /\ last'.ok /\ last'.id = call.id

(* C5: deleteTodo(id) of an existing todo deletes the todo's comments, then  *)
(* its sub-items, then the todo itself and nothing else, after which getTodo *)
(* finds nothing and listComments and listSubItems of the id are empty; for  *)
(* an id no todo has it returns false and changes no table.                  *)
C5_DeleteTodoCascades ==
    /\ [](CascadeOrder /\ CascadeDone)
    /\ [][CascadeStep]_vars

C5_Witness ==
    /\ call = Idle /\ last.op = "deleteTodo" /\ last.ok
    /\ last.comments # {} /\ last.subItems # {}
    /\ last.id \notin DOMAIN todos

----------------------------------------------------------------------------
(* Properties of the reminder scheduling under SpecSched                     *)

\* The pending jobs whose todo is stored as completed or cancelled
StaleJobs ==
    {j \in DOMAIN jobs :
        /\ jobs[j].todoId \in DOMAIN todos
        /\ ~isTodoActive(rowToTodo(todos[jobs[j].todoId]))}

(* C3: whatever the interleaving of the todo upserts and of the scheduleTodo *)
(* callbacks they start, once every started callback has run to completion   *)
(* no scheduler job is pending for a todo whose stored status is completed   *)
(* or cancelled.                                                             *)
C3_NoJobForInactiveTodo == (call = Idle /\ callbacks = {}) => StaleJobs = {}

\* The callbacks that finish in the step
Finishing == callbacks \ callbacks'

(* C11: the job of a (user, todo) pair is cancelled or replaced only by a    *)
(* cancellation or a scheduling for that same pair: the job id is injective  *)
(* over the pairs of a user id and a todo id.                                *)
C11_JobKeyPerPair ==
    [][\A j \in DOMAIN jobs :
           (j \notin DOMAIN jobs' \/ jobs'[j] # jobs[j]) =>
               \E c \in Finishing :
                   c.user = jobs[j].userId /\ c.todo.id = jobs[j].todoId]_vars

(* C12: once work_todos_delete has succeeded for a todo of a user and every  *)
(* scheduling callback has run to its end, a scheduleTodo of an earlier      *)
(* upsert included, the scheduler holds no job for that user and todo.       *)
C12_DeleteCancelsJob ==
    (last.op = "deleteTodoTool" /\ last.ok /\ callbacks = {}) =>
        getReminderJobId(last.id, last.user) \notin DOMAIN jobs

\* A sub-item row is complete when its completed_at holds a timestamp
Complete(completedAt) == completedAt.kind = "val"

\* This step is a toggleSubItem call
Toggling == last'.op = "toggleSubItem" /\ clock' # clock

\* The step before this one was a toggleSubItem that found the same sub-item
ToggledJustBefore ==
    /\ last.op = "toggleSubItem" /\ last.ok
    /\ last.user = last'.user /\ last.todoId = last'.todoId /\ last.id = last'.id

(* C13: one toggleSubItem on a sub-item the user has flips it, null to a     *)
(* timestamp and a timestamp to null, and leaves every other row alone; two  *)
(* calls in sequence give back the original completion state; a call that    *)
(* finds no sub-item returns false and writes nothing.                       *)
C13_ToggleFlips ==
    [][Toggling =>
          IF last'.ok
          THEN /\ DOMAIN subitems' = DOMAIN subitems
               /\ \A x \in DOMAIN subitems : x # last'.id => subitems'[x] = subitems[x]
               /\ Complete(subitems'[last'.id].completed_at)
                      = ~Complete(subitems[last'.id].completed_at)
               /\ ~Complete(subitems'[last'.id].completed_at)
                      => subitems'[last'.id].completed_at = Null
               /\ ToggledJustBefore
                      => Complete(subitems'[last'.id].completed_at) = Complete(last.was)
          ELSE subitems' = subitems]_vars

\* A second toggle in sequence has cleared the timestamp the first one set
C13_Witness ==
    /\ last.op = "toggleSubItem" /\ last.ok
    /\ Complete(last.was)
    /\ subitems[last.id].completed_at = Null

\* This step is an updateSettings call
UpdatingSettings == last'.op = "updateSettings" /\ clock' # clock

(* C14: an updateSettings through the facade of one user leaves what         *)
(* getSettings returns through the facade of every other user unchanged.     *)
C14_SettingsPerUser ==
    [][UpdatingSettings =>
          \A v \in Users \ {last'.user} : getSettings(v)' = getSettings(v)]_vars

SettingsFields == {"defaultReminderMinutes", "allDayReminderTime", "reminderLocale"}

\* The stored settings are the previous ones with the supplied fields set
MergedStep ==
    /\ \A f \in SettingsFields :
           getSettings(last'.user)'[f] =
               IF last'.update[f] # Undefined THEN last'.update[f]
               ELSE getSettings(last'.user)[f]
    /\ last'.ret = getSettings(last'.user)'

(* C15: updateSettings sets exactly the fields of the update that are not    *)
(* undefined, to the value given or to null, and keeps the others; the       *)
(* record it returns is what a following getSettings returns; before any     *)
(* update getSettings returns the all-null defaults.                         *)
C15_SettingsMerge ==
    /\ \A u \in Users : getSettings(u) = DEFAULT_SETTINGS
    /\ [][UpdatingSettings => MergedStep]_vars

\* A partial update has set one field to a value and another to null while a
\* field it left out keeps the value of an earlier update
C15_Witness ==
    /\ last.op = "updateSettings"
    /\ last.update.defaultReminderMinutes = Val(15)
    /\ last.update.allDayReminderTime = Null
    /\ last.update.reminderLocale = Undefined
    /\ getSettings(last.user).reminderLocale = Val("sv")
    /\ getSettings(last.user).allDayReminderTime = Null

(* C16: on one connection the schema setup of initialize() is begun at most  *)
(* once, whatever wrappers initialize() is called on and however the calls   *)
(* of activation and of the tools interleave.                                *)
C16_SetupOnce == setups <= 1

\* This step is a run of initialize()
Initializing == last'.op = "initialize" /\ clock' # clock

\* The names of a status that the four canonical statuses replace
LegacyAliases ==
    {"pending", "todo", "open", "inprogress", "in-progress", "complete", "done",
     "canceled"}

\* What a run leaves: no legacy status, no blank or dangling project
\* reference, no group state of a missing project, no row without a user
Normalized ==
    /\ \A t \in DOMAIN todos :
           /\ todos[t].status \notin LegacyAliases
           /\ todos[t].project_id = Null \/ todos[t].project_id.v \in DOMAIN projects
    /\ \A g \in DOMAIN groupState : g = NO_PROJECT_GROUP \/ g \in DOMAIN projects
    /\ Migrated(projects) /\ Migrated(todos) /\ Migrated(comments)
    /\ Migrated(subitems) /\ Migrated(groupState)

(* C17: a run of initialize() raises no error, on an empty database          *)
(* included, and leaves the legacy statuses rewritten, the blank and         *)
(* dangling project references nulled, the group state of missing projects   *)
(* deleted and every row with a user; a run that follows another run changes *)
(* no row: twice gives the contents that once gives.                         *)
C17_NormalizeIdempotent ==
    [][Initializing =>
          /\ last'.ok
          /\ Normalized'
          /\ last.op = "initialize" => dbVars' = dbVars]_vars

\* A second run has gone over a database whose first run rewrote a legacy
\* status, nulled a dangling project reference and dropped a group-state row
C17_Witness ==
    /\ last.op = "initialize" /\ setups = 2
    /\ "t1" \in DOMAIN todos
    /\ todos["t1"].status = "cancelled" /\ todos["t1"].project_id = Null
    /\ todos["t1"].user_id = Val("legacy")
    /\ projects = <<>>
    /\ DOMAIN groupState = {NO_PROJECT_GROUP}

\* An argument that is given and not blank after trimming
NonBlank(o) == o.kind = "val" /\ trim(o.v) # ""

\* The characters [a, b) of dueAt, of no dueAt none
DueAtChars(dueAt, a, b) == IF dueAt.kind = "val" THEN slice(dueAt.v, a, b) ELSE ""

(* C18: deriveDateTime returns the given date and time verbatim exactly when *)
(* both are non-blank after trimming; in every other case the date is the    *)
(* first 10 characters of dueAt and the time is characters 11-16 of dueAt,   *)
(* or '00:00' when allDay is true.                                           *)
C18_DeriveDateTime ==
    last.op = "deriveDateTime" =>
        IF NonBlank(last.date) /\ NonBlank(last.time)
        THEN last.ret = [date |-> last.date.v, time |-> last.time.v]
        ELSE /\ last.ret.date = DueAtChars(last.dueAt, 0, 10)
             /\ last.ret.time = IF last.allDay = Val(TRUE) THEN "00:00"
                                ELSE DueAtChars(last.dueAt, 11, 16)

ToolOps == {"work_todos_upsert", "work_subitems_delete"}

(* C19: when the repository call of a tool has written its record, the tool  *)
(* returns success, with that record when it has one, and the tables hold    *)
(* what the call wrote, whatever scheduler.schedule, scheduler.cancel, the   *)
(* settings lookup of scheduleTodo or the event emission do.                 *)
C19_SideChannelNeverFails ==
    (last.op \in ToolOps /\ last.persisted) =>
        /\ last.result.success
        /\ last.result.data = last.data
        /\ last.after = <<todos, subitems>>

(* C20: a tool returns a success envelope or a failure envelope with a       *)
(* message; a missing user context, a missing required field, an id that is  *)
(* not found and an exception of the query executor each give the failure    *)
(* envelope; on a failure the change-notification callback was not invoked.  *)
C20_FailureEnvelope ==
    last.op \in ToolOps =>
        /\ ~last.result.success => last.result.error # ""
        /\ (last.user = "" \/ last.rejected \/ last.executor = "throws")
               => ~last.result.success
        /\ ~last.result.success => ~last.notified

(* C21: once the disposable returned by activate has been disposed, every    *)
(* tool registration, every action registration and the onFire subscription  *)
(* that activate made has had its dispose() called.                          *)
C21_DisposeAll ==
    activation = "deactivated" => \A r \in DOMAIN registrations : registrations[r]

\* An activation that registered the tools, the actions and onFire was disposed
C21_Witness ==
    /\ activation = "deactivated"
    /\ DOMAIN registrations = Range(ToolSeq) \cup Range(ActionSeq) \cup {ON_FIRE}
    /\ \A r \in DOMAIN registrations : registrations[r]

\* The fire time scheduleTodo computes from the stored todo of a job under the
\* settings its user reads now
CurrentReminderAt(job) ==
    resolveReminderAt(rowToTodo(todos[job.todoId]), getSettings(job.userId), tz)

(* C22: when every scheduling callback started by the upserts of a todo has  *)
(* finished, the job pending for a user and a stored todo, if there is one,  *)
(* fires at resolveReminderAt of the todo as stored last under the user's    *)
(* current settings; the job id keeps the jobs of a pair down to one.        *)
C22_JobFollowsLastEdit ==
    (call = Idle /\ callbacks = {}) =>
        \A j \in DOMAIN jobs :
            /\ j = getReminderJobId(jobs[j].todoId, jobs[j].userId)
            /\ jobs[j].todoId \in DOMAIN todos =>
                   CurrentReminderAt(jobs[j]) = Val(jobs[j].at)

\* This step is a run of the onFire handler
Firing == last'.op = "onFire" /\ clock' # clock

(* C23: the onFire handler appends an instruction to chat only if the        *)
(* payload's userId is the execution context's userId, the payload's todoId  *)
(* is a string naming a todo of that user that exists and is active when     *)
(* looked up; otherwise chat is left as it was; a failure inside the handler *)
(* is logged and not thrown to the scheduler.                                *)
C23_FireOnlyForOwnActiveTodo ==
    [][Firing =>
          /\ chat' # chat =>
                 /\ last'.currentUserId.kind = "val"
                 /\ last'.payload.userId = last'.currentUserId
                 /\ last'.payload.todoId.kind = "val"
                 /\ last'.payload.todoId.v \in DOMAIN todos
                 /\ creator[last'.payload.todoId.v] = last'.currentUserId.v
                 /\ isTodoActive(rowToTodo(todos[last'.payload.todoId.v]))
          /\ chat' # chat => chat' = Append(chat, chat'[Len(chat')])
          /\ last'.failure # "none" => chat' = chat
          /\ ~last'.thrown]_vars

\* The step is a whole call of a handler, the one last' tells
WholeCall == call = Idle /\ call' = Idle /\ clock' # clock

\* The upsert of the step was given no id, or an id of no record of its user
CreatesIn(tbl) ==
    ~(last'.id.kind = "val" /\ last'.id.v \in DOMAIN tbl /\ creator[last'.id.v] = last'.user)

\* The step inserted exactly one row, the acting user's, under the supplied id
\* if one was supplied
CreatedIn(old, new) ==
    \E x \in DOMAIN new :
        /\ x \notin DOMAIN old \/ creator[x] # last'.user
        /\ creator'[x] = last'.user
        /\ last'.id.kind = "val" => x = last'.id.v
        /\ last'.ret.value.id = x
        /\ \A y \in DOMAIN old : y # x => (y \in DOMAIN new /\ new[y] = old[y])

(* C26: an upsert that finds no record of its user creates one exactly when  *)
(* the required fields are present (title, icon, status and dueAt of a todo, *)
(* name of a project), under the supplied id if one was supplied; otherwise  *)
(* it fails with the validation error and no row is inserted or changed.     *)
C26_CreateRequiresFields ==
    [][/\ (last'.op = "upsertTodo" /\ WholeCall /\ CreatesIn(todos)) =>
            IF /\ Truthy(last'.input.title) /\ Truthy(last'.input.icon)
               /\ Truthy(last'.input.status) /\ Truthy(last'.input.dueAt)
            THEN last'.ok /\ CreatedIn(todos, todos')
            ELSE /\ ~last'.ok /\ todos' = todos
                 /\ last'.ret.error \in {"Todo title, icon, and status are required",
                                         "Todo dueAt is required"}
       /\ (last'.op = "upsertProject" /\ WholeCall /\ CreatesIn(projects)) =>
            IF Truthy(last'.input.name)
            THEN last'.ok /\ CreatedIn(projects, projects')
            ELSE /\ ~last'.ok /\ projects' = projects
                 /\ last'.ret.error = "Project name is required"]_vars

\* The collapsed flag of each group of the panel of u
Collapsed(u) == [g \in DOMAIN listPanelGroups(u) |-> listPanelGroups(u)[g].collapsed]

(* C28: setGroupCollapsed(g, c) of a user, for 'no-project' or a project of  *)
(* that user, returns true, shows as c in that user's listPanelGroups and    *)
(* leaves the collapsed state of every other user as it was, whether or not  *)
(* another user has stored a state for g; for any other g it returns false   *)
(* and writes nothing.                                                       *)
C28_CollapsedPerUserAndGroup ==
    [][\A u \in Users, g \in ProjectIds \cup {NO_PROJECT_GROUP} :
           (last'.op = "setGroupCollapsed" /\ WholeCall /\ last'.user = u /\ last'.id = g) =>
               IF g = NO_PROJECT_GROUP \/ getProject(u, g).kind = "val"
               THEN /\ last'.ok /\ last'.ret.value = TRUE
                    /\ Collapsed(u)'[g] = last'.collapsed
                    /\ \A v \in Users \ {u} : Collapsed(v)' = Collapsed(v)
               ELSE /\ last'.ok /\ last'.ret.value = FALSE
                    /\ groupState' = groupState]_vars

(* C29: once two updateSettings calls of one user have completed, one that   *)
(* set only defaultReminderMinutes and one that set only allDayReminderTime, *)
(* getSettings returns both new values, however their statements were       *)
(* interleaved.                                                              *)
C29_ConcurrentUpdatesBothApply ==
    \A c, d \in callbacks :
        (/\ callbacks = {c, d} /\ c.pc = "done" /\ d.pc = "done" /\ c.user = d.user
         /\ c.update = [EmptySettingsUpdate EXCEPT !.defaultReminderMinutes = Val(15)]
         /\ d.update = [EmptySettingsUpdate EXCEPT !.allDayReminderTime = Val("08:00")])
        => /\ getSettings(c.user).defaultReminderMinutes = Val(15)
           /\ getSettings(c.user).allDayReminderTime = Val("08:00")

\* The comments and sub-items whose todo is not a stored todo of their user
Orphans(tbl) ==
    {x \in DOMAIN tbl :
        ~(tbl[x].todo_id \in DOMAIN todos /\ Val(creator[tbl[x].todo_id]) = tbl[x].user_id)}

(* C30: whenever no deletion is in progress, every stored comment and every  *)
(* stored sub-item refers to a stored todo of the same user.                 *)
C30_ChildrenHaveTheirTodo ==
    call = Idle => Orphans(comments) = {} /\ Orphans(subitems) = {}

\* How many times scheduleTodo was invoked for todo t
Invocations(invoked, t) == Cardinality({i \in DOMAIN invoked : invoked[i] = t})

(* C25: a finished scheduleAllTodosForUser(u) has invoked scheduleTodo       *)
(* exactly once for every todo of u and for no todo of another user, and it  *)
(* fetched pages of at most 200 up to the first empty or short one.          *)
C25_ScheduleAllOwnTodosOnce ==
    last.op = "scheduleAllTodosForUser" =>
        /\ \A t \in DOMAIN last.before :
               Invocations(last.invoked, t) = IF creator[t] = last.user THEN 1 ELSE 0
        /\ \A i \in DOMAIN last.invoked : last.invoked[i] \in DOMAIN last.before
        /\ last.length < pageSize

\* The toggles of sub-item x that have returned true
DoneToggles(x) == {c \in callbacks : c.pc = "done" /\ c.ret /\ c.subItemId = x}

(* C24: the UPDATE of a toggle writes the opposite of what its own SELECT    *)
(* returned, whatever other toggles wrote in between: the last write wins,    *)
(* so two toggles that read the same state leave the sub-item toggled once.   *)
C24_ToggleLastWriteWins ==
    [][\A c \in callbacks :
          (c.pc = "update" /\ callbacks' = (callbacks \ {c}) \cup
                                            {[c EXCEPT !.pc = "done", !.ret = TRUE]})
          => /\ c.subItemId \in DOMAIN subitems'
             /\ Complete(subitems'[c.subItemId].completed_at)
                    <=> ~Complete(c.completed_at)]_vars

\* Two toggles of one never completed sub-item both read it incomplete, both
\* returned true, no other toggle ran, and the sub-item is complete: toggled
\* once, not twice
C24_Witness ==
    \E x \in DOMAIN subitems :
        /\ Cardinality(DoneToggles(x)) = 2
        /\ \A c \in DoneToggles(x) : c.completed_at = Null
        /\ \A c \in callbacks : c.subItemId = x => c \in DoneToggles(x)
        /\ Complete(subitems[x].completed_at)

\* The message has the line that tells the delay
HasDelayLine(message) == \E i \in DOMAIN message : message[i].line = "delay"

(* C27: buildInstructionMessage has the 'delayed by N minutes' line exactly  *)
(* when the delay is at least one whole minute, delayMs >= 60000.            *)
C27_DelayLineFromOneMinute ==
    last.op = "buildInstructionMessage" =>
        (HasDelayLine(last.message) <=> last.delayMs >= 60000)

----------------------------------------------------------------------------
(* Properties of upsertTodo under SpecTodo                                   *)

Updated == call = Idle /\ last.op = "upsertTodo" /\ last.ok /\ ~last.inserted

Upserted == call = Idle /\ last.op = "upsertTodo" /\ last.ok

\* The record before and after the last upsert, and the one it returned
Prior == rowToTodo(last.before[last.ret.value.id])
Stored == rowToTodo(todos[last.ret.value.id])
Returned == last.ret.value

PlainFields ==
    {"title", "description", "icon", "status", "projectId", "dueAt", "allDay",
     "reminderMinutes"}

Kept(f) == Stored[f] = Prior[f] /\ Returned[f] = Prior[f]

Consistent(todo) ==
    /\ todo.date = slice(todo.dueAt, 0, 10)
    /\ todo.time = IF todo.allDay THEN "00:00" ELSE slice(todo.dueAt, 11, 16)

FullDueAt(todo) == Len(todo.dueAt) >= 16

(* C7: after an upsertTodo whose input supplies neither date nor time, the   *)
(* stored date is the first 10 characters of the stored dueAt and the stored *)
(* time is its characters 11-16, or 00:00 when allDay; this is so for a new  *)
(* todo and for an existing one whose date and time were those of its dueAt, *)
(* also when the upsert changes dueAt or allDay.                             *)
C7_DateTimeFollowDueAt ==
    (/\ Upserted
     /\ last.input.date = Undefined /\ last.input.time = Undefined
     /\ FullDueAt(Stored)
     /\ ~last.inserted => (FullDueAt(Prior) /\ Consistent(Prior)))
        => Consistent(Stored)

----------------------------------------------------------------------------
(* C8: for a timed todo whose reminderMinutes is explicitly null the         *)
(* resolver returns null even when the default is a number; the default is   *)
(* used only when reminderMinutes is absent, and a numeric reminderMinutes   *)
(* decides the result whatever the default is.                               *)
C8_ExplicitNullSuppresses ==
    (Resolved /\ ~rTodo.allDay) =>
        /\ rTodo.reminderMinutes = Null => rResult = Null
        /\ rTodo.reminderMinutes.kind = "val" =>
              \A d \in {Null, Val(30), Val(15)} :
                  resolveReminderAt(rTodo,
                      [rSettings EXCEPT !.defaultReminderMinutes = d], tz) = rResult

----------------------------------------------------------------------------
\* HH:MM or HH:MM:SS, surrounding whitespace aside
TimeOfDayForm(s) ==
    LET t == trim(s)
        two(i) == IsDigit(charAt(t, i)) /\ IsDigit(charAt(t, i + 1))
    IN \/ Len(t) = 5 /\ two(0) /\ charAt(t, 2) = ":" /\ two(3)
       \/ /\ Len(t) = 8 /\ two(0) /\ charAt(t, 2) = ":" /\ two(3)
          /\ charAt(t, 5) = ":" /\ two(6)

BadAllDayTime(s) ==
    s.allDayReminderTime = Null \/ ~TimeOfDayForm(s.allDayReminderTime.v)

(* C9: for an all-day todo the resolver returns null whenever                *)
(* allDayReminderTime is null, blank or not HH:MM / HH:MM:SS, whatever the   *)
(* todo's reminderMinutes and the default are; the result of an all-day todo *)
(* never depends on either lead-minutes value.                               *)
C9_AllDayNeedsValidTime ==
    (Resolved /\ rTodo.allDay) =>
        /\ BadAllDayTime(rSettings) => rResult = Null
        /\ \A m \in {Undefined, Null} \cup {Val(n) : n \in ReminderMinuteValues},
              d \in {Null, Val(30), Val(15)} :
                resolveReminderAt([rTodo EXCEPT !.reminderMinutes = m],
                    [rSettings EXCEPT !.defaultReminderMinutes = d], tz) = rResult

C9_Witness ==
    /\ Resolved /\ rTodo.allDay /\ rResult = Null
    /\ rTodo.dueAt = "2025-03-01T10:00:00Z"
    /\ rTodo.reminderMinutes = Val(30) /\ rSettings.defaultReminderMinutes = Val(15)
    /\ rSettings.allDayReminderTime = Val("09:00:00Z")

----------------------------------------------------------------------------
\* The effective lead minutes: the todo's reminderMinutes when it is set, an
\* explicit null included, else the default
LeadMinutes(todo, s) ==
    IF todo.reminderMinutes # Undefined THEN todo.reminderMinutes
    ELSE s.defaultReminderMinutes

\* YYYY-MM-DDTHH:mm:ss.sssZ
UtcForm(r) == Len(r) = 24 /\ charAt(r, 10) = "T" /\ charAt(r, 23) = "Z"

(* C10: for a timed todo with a parseable dueAt and lead minutes m the       *)
(* resolver returns the UTC timestamp of the instant dueAt minus m minutes   *)
(* (2025-03-01T10:00:00Z with default 30 gives 2025-03-01T09:30:00.000Z); it *)
(* returns null when dueAt is empty or unparseable or no lead minutes apply. *)
C10_TimedReminderInstant ==
    (Resolved /\ ~rTodo.allDay) =>
        LET m == LeadMinutes(rTodo, rSettings)
            due == DateParse(rTodo.dueAt, tz)
        IN /\ (rTodo.dueAt = "" \/ due = Null \/ m = Null) => rResult = Null
           /\ (due # Null /\ m # Null) =>
                 /\ rResult.kind = "val" /\ UtcForm(rResult.v)
                 /\ DateParse(rResult.v, tz).kind = "val"
                 /\ DateParse(rResult.v, tz).v.min + m.v = due.v.min
                 /\ DateParse(rResult.v, tz).v.ms = due.v.ms
           /\ (/\ rTodo.dueAt = "2025-03-01T10:00:00Z"
               /\ rTodo.reminderMinutes = Undefined
               /\ rSettings.defaultReminderMinutes = Val(30))
                 => rResult = Val("2025-03-01T09:30:00.000Z")
           /\ (rTodo.dueAt = "2024-03-01T00:10:00Z" /\ m = Val(30))
                 => rResult = Val("2024-02-29T23:40:00.000Z")

====
